---- MODULE Spec2Model ----
(***************************************************************************)
(* Monument Mixer AI: the three-step wizard (create monument, place in     *)
(* scene, share) of src/App.tsx in its two variants,                       *)
(*   "server": App.tsx:161-611, every generation goes through the          *)
(*             /api/generate handler of src/api/generate.ts;               *)
(*   "client": App.tsx:613-1214, the browser holds the API key and calls   *)
(*             the generation endpoint itself;                             *)
(*   "proxy":  the /api/generate handler on its own, given any request;    *)
(* together with the asynchronous handlers in flight, whose awaits are the *)
(* suspension points at which user events interleave; and the one-page    *)
(* generators of App.tsx:1-159 and unnamed/part_004.                       *)
(*                                                                         *)
(* Strings are sequences of tokens, concatenation is \o and "" is <<>>.    *)
(* A token that a String.includes() test of the source looks for is kept   *)
(* as a token of its own.  Values of nullable fields (files, data URLs,    *)
(* error messages) are records, so that null compares with all of them.    *)
(***************************************************************************)
EXTENDS Integers, Sequences, FiniteSets, Bags, TLC

----------------------------------------------------------------------------
(* Bounds of the model *)

\* handleSceneUpload calls that may be outstanding at once
MaxDescribe == 2
\* main generation handlers that may be outstanding at once
MaxMain == 2

----------------------------------------------------------------------------
(* State *)

VARIABLES
    variant,            \* which App is running: the wizard served with a proxy
                        \* ("server") or with the user's key ("client"), or a
                        \* one-page generator, named after the function it calls
    apiKey,             \* client variant: the key typed in
    apiKeyConfirmed,    \* client variant: the key screen has been passed
    step,
    monumentSource,
    monumentPrompt,
    monumentFile,
    generatedMonument,
    sceneSource,
    scenePrompt,
    sceneFile,
    editPrompt,
    finalImage,
    isLoading,
    isGeneratingPrompt,
    error,
    responses,          \* the shapes of response the endpoint gives in this run
    prompt,             \* one-page generators: the text typed
    uploadedImage,      \* one-page generators: the reference image (imageFile in App.tsx:11)
    generatedImage,     \* one-page generators: the result (generatedImageUrl in App.tsx:12)
    sent,               \* /api/generate on its own: the request last received and
                        \* what has been sent back for it
    inflight            \* bag of the async handlers suspended at an await

vars == << variant, apiKey, apiKeyConfirmed, step, monumentSource, monumentPrompt,
           monumentFile, generatedMonument, sceneSource, scenePrompt, sceneFile,
           editPrompt, finalImage, isLoading, isGeneratingPrompt, error, responses,
           prompt, uploadedImage, generatedImage, sent, inflight >>

keyVars == << apiKey, apiKeyConfirmed >>
monumentVars == << monumentSource, monumentPrompt, monumentFile, generatedMonument >>
sceneVars == << sceneSource, scenePrompt, sceneFile, editPrompt >>
busyVars == << isLoading, isGeneratingPrompt >>
envVars == << variant, responses, sent >>
pageVars == << envVars, prompt, uploadedImage, generatedImage >>
wizardVars == << keyVars, step, monumentVars, sceneVars, finalImage, isGeneratingPrompt >>

----------------------------------------------------------------------------
(* Values *)

null == [tag |-> "null"]

Empty == << >>

\* a JS string held in a nullable field
Str(s) == [tag |-> "string", text |-> s]

\* String.prototype.includes, on tokens
Includes(s, needle) ==
    \E i \in 1..Len(s) : s[i] = needle

\* String.prototype.trim: a token of white space is dropped
Trim(s) == SelectSeq(s, LAMBDA t : t # " ")

\* btoa / atob: base64 text stands for the bytes it encodes
btoa(bytes) == [b64 |-> bytes]
atob(b) == b.b64

\* a File object
File(name, type, bytes) == [tag |-> "File", name |-> name, type |-> type, bytes |-> bytes]

\* `data:${mimeType};base64,${data}`
DataUrl(mimeType, data) == [tag |-> "dataurl", mime |-> mimeType, data |-> data]

\* FileReader.readAsDataURL(file), when the read succeeds
readAsDataURL(file) == DataUrl(file.type, btoa(file.bytes))

\* dataurl.split(',') : [ "data:<mime>;base64", "<data>" ]
SplitComma(dataurl) == << [head |-> "data", mime |-> dataurl.mime], dataurl.data >>

----------------------------------------------------------------------------
(* Prompt templates *)

\* App.tsx:751-758 and generate.ts:44-51
MonumentFromTextPrompt(prompt_) ==
    <<"Create a photorealistic 3D render of a monument based on the following description: \"">>
      \o prompt_
      \o <<"\".\n\nKey requirements: 1. Object 2. Base 3. Appearance 4. Lighting 5. Background">>

\* App.tsx:798-806 and generate.ts:70-78
MonumentFromImagePrompt(prompt_) ==
    <<"Task: Create a photorealistic 3D render of a monument based on the main subject of the provided image. The monument should be styled as: \"">>
      \o prompt_
      \o <<"\". 3. Add a Base 4. Material and Texture 5. Lighting 6. Final Output">>

\* App.tsx:910-920 and generate.ts:126-136
FinalEditPrompt(editPrompt_) ==
    <<"Task: Photorealistically integrate the monument from the second image into the scene from the first image. 3. Placement: Follow this instruction for placement: \"">>
      \o editPrompt_
      \o <<"\". 4. Realism 5. Output">>

DescribePrompt ==
    <<"Briefly describe this image for an AI photo editing prompt. Focus on the main environment.">>

DefaultMonumentPrompt == <<"A majestic crystal obelisk monument, futuristic, glowing">>
DefaultUploadMonumentPrompt == <<"A grand, majestic monument made of polished bronze.">>
DefaultScenePrompt == <<"A beautiful sunny park with green grass and trees, photorealistic.">>
InitialEditPrompt == <<"Add the monument to the center of the park, making it look natural">>
PromptSceneEditPrompt ==
    <<"Place the monument in the generated scene, ensuring it looks natural and well-integrated.">>
UploadSceneEditPrompt == <<"Place the monument in the center of the scene, making it look natural">>
GeneratingEditPrompt == <<"Generating scene description...">>
FallbackEditPrompt == <<"Add the monument to the scene, making it look natural">>
DescribedEditPrompt(description) ==
    <<"Add the monument to ">> \o description \o <<", making it look natural">>

----------------------------------------------------------------------------
(* The generation endpoint (ai.models.generateContent) *)

TextPart(t) == [text |-> t]
InlinePart(data, mimeType) == [inlineData |-> [data |-> data, mimeType |-> mimeType]]
IsInline(part) == "inlineData" \in DOMAIN part

ImageRequest(parts) == [model |-> "gemini-2.5-flash-image", parts |-> parts, modality |-> "IMAGE"]
TextRequest(parts) == [model |-> "gemini-2.5-flash", parts |-> parts, modality |-> "TEXT"]

\* Shapes of a response: a list of candidates, each a list of parts; an
\* image part is [mime, n], where n tells the images of one response apart.
ResponseShapes ==
    { << >>,
      << << [t |-> "text"] >> >>,
      << << [t |-> "text"], [mime |-> "image/png", n |-> 1] >> >>,
      << << [mime |-> "image/jpeg", n |-> 1], [mime |-> "image/png", n |-> 2] >> >>,
      << << [t |-> "text"] >>, << [mime |-> "image/png", n |-> 1] >> >> }

\* The wizard keeps of a response its first image only and branches on
\* nothing else of it; it is run with a response that has no image and one
\* that has.
WizardResponseShapes ==
    { << << [t |-> "text"] >> >>,
      << << [t |-> "text"], [mime |-> "image/png", n |-> 1] >> >> }

\* The bytes the endpoint returns are new with each call: they are named
\* after the kind of request that produced them (its parts: "image" for an
\* inline image, the opening of the text for a text part).
KindOf(request) ==
    [p \in DOMAIN request.parts |->
        IF IsInline(request.parts[p]) THEN "image"
        ELSE IF request.parts[p].text = Empty THEN ""
        ELSE Head(request.parts[p].text)]

GeneratedBytes(request, n) == [by |-> KindOf(request), n |-> n]

\* The response of `shape` to `request`.
Respond(request, shape) ==
    [candidates |->
        [c \in DOMAIN shape |->
            [p \in DOMAIN shape[c] |->
                IF "mime" \in DOMAIN shape[c][p]
                THEN InlinePart(btoa(GeneratedBytes(request, shape[c][p].n)), shape[c][p].mime)
                ELSE TextPart(<<"Here is your image">>)]]]

\* What a call may end with: the call raises, or it returns a response.
RaiseMessages ==
    { <<"API key not valid", ". Please pass a valid API key.">>,
      <<"You exceeded your current ", "quota", ", please check your plan and billing details.">>,
      <<"The model is overloaded.">> }

ImageOutcomes ==
    [kind : {"raise"}, message : RaiseMessages] \cup [kind : {"response"}, shape : responses]

\* description of an image, as the model words it
DescriptionOf(inline) == <<"a place that looks like ", atob(inline.data)>>

\* response.text of a describe call: a description, or undefined
TextOutcomes ==
    [kind : {"raise"}, message : RaiseMessages] \cup [kind : {"text", "notext"}]

\* the last inline part from position i on, null if none
RECURSIVE LastInline(_, _)
LastInline(parts, i) ==
    IF i > Len(parts) THEN null
    ELSE LET later == LastInline(parts, i + 1)
         IN  IF later # null THEN later
             ELSE IF IsInline(parts[i]) THEN parts[i] ELSE null

\* First inline part of a list of parts, scanning in order; null if none.
RECURSIVE FirstInline(_, _)
FirstInline(parts, i) ==
    IF i > Len(parts) THEN null
    ELSE IF IsInline(parts[i]) THEN parts[i]
    ELSE FirstInline(parts, i + 1)

\* generate.ts:4-19
getResponseImage(response) ==
    IF Len(response.candidates) > 0
    THEN LET part == FirstInline(response.candidates[1], 1)
         IN  IF part = null THEN null
             ELSE [mimeType |-> part.inlineData.mimeType, data |-> part.inlineData.data]
    ELSE null

\* App.tsx:648-660
getImageUrlFromResponse(response) ==
    IF Len(response.candidates) > 0
    THEN LET part == FirstInline(response.candidates[1], 1)
         IN  IF part = null THEN null
             ELSE DataUrl(part.inlineData.mimeType, part.inlineData.data)
    ELSE null

\* a settled promise
Return(v) == [tag |-> "return", value |-> v]
\* throw new Error(message)
Throw(message) == [tag |-> "throw", isError |-> TRUE, message |-> message]
\* a rejection with something that is no Error (a FileReader error event)
RejectEvent == [tag |-> "throw", isError |-> FALSE, message |-> Empty]

----------------------------------------------------------------------------
(* The /api/generate handler (server-proxied variant) *)

HttpResponse(status, body, calls) == [status |-> status, body |-> body, calls |-> calls]

\* a catch block that answers with status 200
handlerCatchOk(message, calls) ==
    HttpResponse(200,
                 [error |-> IF message # Empty THEN message
                            ELSE <<"An internal server error occurred.">>],
                 calls)

\* generate.ts:160-163
handlerCatch(message, calls) ==
    HttpResponse(500,
                 [error |-> IF message # Empty THEN message
                            ELSE <<"An internal server error occurred.">>],
                 calls)


\* the handler returning the scene it generated instead of the composite
handlerPlaceMonumentReturnsScene(body, outcomes) ==
    LET sceneCall == ImageRequest(<<TextPart(body.scenePrompt)>>)
        fromPrompt == body.sceneSource = "prompt"
        sceneImage == getResponseImage(Respond(sceneCall, outcomes[1].shape))
        sceneImagePart ==
            IF fromPrompt
            THEN InlinePart(sceneImage.data, sceneImage.mimeType)
            ELSE InlinePart(body.sceneImage.data, body.sceneImage.mimeType)
        monumentImagePart == InlinePart(body.monumentImage.data, body.monumentImage.mimeType)
        finalCall == ImageRequest(<<sceneImagePart, monumentImagePart,
                                    TextPart(FinalEditPrompt(body.editPrompt))>>)
        k == IF fromPrompt THEN 2 ELSE 1
        before == IF fromPrompt THEN <<sceneCall>> ELSE << >>
        finalImage_ == IF fromPrompt THEN sceneImage
                       ELSE getResponseImage(Respond(finalCall, outcomes[k].shape))
    IN  IF fromPrompt /\ outcomes[1].kind = "raise"
        THEN handlerCatch(outcomes[1].message, <<sceneCall>>)
        ELSE IF fromPrompt /\ sceneImage = null
        THEN handlerCatch(<<"Failed to generate a scene from prompt.">>, <<sceneCall>>)
        ELSE IF outcomes[k].kind = "raise"
        THEN handlerCatch(outcomes[k].message, before \o <<finalCall>>)
        ELSE IF finalImage_ # null
        THEN HttpResponse(200,
                          [finalImageUrl |-> DataUrl(finalImage_.mimeType, finalImage_.data)],
                          before \o <<finalCall>>)
        ELSE handlerCatch(<<"API did not return the final image.">>, before \o <<finalCall>>)

\* generate.ts:107-156.  `outcomes` are the results of the endpoint calls
\* the handler awaits, in the order it makes them.
handlerPlaceMonument(body, outcomes) ==
    LET sceneCall == ImageRequest(<<TextPart(body.scenePrompt)>>)
        fromPrompt == body.sceneSource = "prompt"
        sceneImage == getResponseImage(Respond(sceneCall, outcomes[1].shape))
        sceneImagePart ==
            IF fromPrompt
            THEN InlinePart(sceneImage.data, sceneImage.mimeType)
            ELSE InlinePart(body.sceneImage.data, body.sceneImage.mimeType)
        monumentImagePart == InlinePart(body.monumentImage.data, body.monumentImage.mimeType)
        finalCall == ImageRequest(<<sceneImagePart, monumentImagePart,
                                    TextPart(FinalEditPrompt(body.editPrompt))>>)
        k == IF fromPrompt THEN 2 ELSE 1
        before == IF fromPrompt THEN <<sceneCall>> ELSE << >>
        finalImage_ == getResponseImage(Respond(finalCall, outcomes[k].shape))
    IN  IF fromPrompt /\ outcomes[1].kind = "raise"
        THEN handlerCatch(outcomes[1].message, <<sceneCall>>)
        ELSE IF fromPrompt /\ sceneImage = null
        THEN handlerCatch(<<"Failed to generate a scene from prompt.">>, <<sceneCall>>)
        ELSE IF outcomes[k].kind = "raise"
        THEN handlerCatch(outcomes[k].message, before \o <<finalCall>>)
        ELSE IF finalImage_ # null
        THEN HttpResponse(200,
                          [finalImageUrl |-> DataUrl(finalImage_.mimeType, finalImage_.data)],
                          before \o <<finalCall>>)
        ELSE handlerCatch(<<"API did not return the final image.">>, before \o <<finalCall>>)

\* generate.ts:42-65 and 67-92: one image call, the first image returned
handlerGenerate(call, outcome) ==
    LET image == getResponseImage(Respond(call, outcome.shape))
    IN  IF outcome.kind = "raise" THEN handlerCatch(outcome.message, <<call>>)
        ELSE IF image # null
        THEN HttpResponse(200, [imageUrl |-> DataUrl(image.mimeType, image.data)], <<call>>)
        ELSE handlerCatch(<<"API did not return an image.">>, <<call>>)

\* generate.ts:94-105
handlerDescribeScene(body, outcome) ==
    LET imagePart == InlinePart(body.image.data, body.image.mimeType)
        call == TextRequest(<<imagePart, TextPart(DescribePrompt)>>)
    IN  IF outcome.kind = "raise" THEN handlerCatch(outcome.message, <<call>>)
        ELSE IF outcome.kind = "notext"
        THEN handlerCatch(<<"Cannot read properties of undefined (reading 'trim')">>, <<call>>)
        ELSE HttpResponse(200, [description |-> Trim(DescriptionOf(imagePart.inlineData))],
                          <<call>>)

\* generate.ts:33-164
handler(req, outcomes) ==
    IF req.method # "POST"
    THEN HttpResponse(405, [error |-> <<"Method Not Allowed">>], << >>)
    ELSE IF req.body.type = "generateMonumentFromPrompt"
    THEN handlerGenerate(
             ImageRequest(<<TextPart(MonumentFromTextPrompt(req.body.prompt))>>), outcomes[1])
    ELSE IF req.body.type = "generateMonumentFromImage"
    THEN handlerGenerate(
             ImageRequest(<<InlinePart(req.body.image.data, req.body.image.mimeType),
                            TextPart(MonumentFromImagePrompt(req.body.prompt))>>), outcomes[1])
    ELSE IF req.body.type = "describeScene"
    THEN handlerDescribeScene(req.body, outcomes[1])
    ELSE IF req.body.type = "placeMonument"
    THEN handlerPlaceMonument(req.body, outcomes)
    ELSE HttpResponse(400, [error |-> <<"Invalid request type">>], << >>)

\* App.tsx:209-222, given the handler's response to the POST
callGenerateApi(response) ==
    IF ~(response.status \in 200..299)
    THEN Throw(IF "error" \in DOMAIN response.body /\ response.body.error # Empty
               THEN response.body.error
               ELSE <<"Request failed with status ", ToString(response.status)>>)
    ELSE Return(response.body)

Post(body) == [method |-> "POST", body |-> body]

----------------------------------------------------------------------------
(* Inputs and handlers in flight *)

\* What the user may type or pick.  A text field is cleared by the user;
\* the texts the code fills in stand for the non-empty ones.
TypedKeys == { <<" ">>, <<"AIza-user-key">> }
TypedMonumentPrompts == { Empty }
TypedScenePrompts == { Empty }
TypedEditPrompts == { Empty }
MonumentFiles == { File("statue.jpg", "image/jpeg", "statue-bytes") }
SceneFiles == { File("park.png", "image/png", "park-bytes") }

MainOps == {"handleGenerateMonument", "handleGenerateMonumentFromImage", "handlePlaceMonument"}

\* the handlers of kind `ops` that are suspended
Suspended(ops) == { r \in DOMAIN inflight : r.op \in ops }
Outstanding(ops) ==
    LET RECURSIVE Sum(_)
        Sum(S) == IF S = {} THEN 0
                  ELSE LET r == CHOOSE x \in S : TRUE IN inflight[r] + Sum(S \ {r})
    IN  Sum(Suspended(ops))

Suspend(r) == inflight (+) SetToBag({r})
Resume(r) == inflight (-) SetToBag({r})

\* App.tsx:180-196 and 665-684
InitWizard(v) ==
    /\ variant = v
    /\ responses = IF v \in {"server", "client"} THEN WizardResponseShapes
                   ELSE ResponseShapes
    /\ apiKey = Empty
    /\ apiKeyConfirmed = FALSE
    /\ step = "CREATE_MONUMENT"
    /\ monumentSource = "prompt"
    /\ monumentPrompt = DefaultMonumentPrompt
    /\ monumentFile = null
    /\ generatedMonument = null
    /\ sceneSource = "upload"
    /\ scenePrompt = DefaultScenePrompt
    /\ sceneFile = null
    /\ editPrompt = InitialEditPrompt
    /\ finalImage = null
    /\ isLoading = FALSE
    /\ isGeneratingPrompt = FALSE
    /\ error = null
    /\ prompt = Empty
    /\ uploadedImage = null
    /\ generatedImage = null
    /\ sent = null
    /\ inflight = EmptyBag

\* The wizard is on screen: the client variant shows the key screen
\* instead until a key is confirmed (App.tsx:951).
AppShown == variant = "server" \/ apiKeyConfirmed

\* the handler that shows every message as it is
handleErrorRaw(err) ==
    [error |-> Str(IF err.isError THEN err.message ELSE <<"An unknown error occurred.">>),
     keyRejected |-> FALSE]

\* App.tsx:198-206 (server) and 694-706 (client): the error message shown
\* and whether the user is sent back to the key screen
handleError(err) ==
    LET errorMessage == IF err.isError THEN err.message ELSE <<"An unknown error occurred.">>
    IN  IF variant = "client"
           /\ (\/ Includes(errorMessage, "API key not valid")
               \/ Includes(errorMessage, "API key is invalid")
               \/ Includes(errorMessage, "permission denied"))
        THEN [error |-> Str(<<"Your API key appears to be invalid. Please enter a valid key to continue.">>),
              keyRejected |-> TRUE]
        ELSE IF Includes(errorMessage, "quota")
        THEN [error |-> Str(IF variant = "client"
                            THEN <<"You've exceeded your API ", "quota", ". Please check your billing details or use a different key.">>
                            ELSE <<"You've exceeded your API ", "quota", ". Please check your billing details or redeploy with a new key.">>),
              keyRejected |-> FALSE]
        ELSE [error |-> Str(errorMessage), keyRejected |-> FALSE]

\* the state after handleError(err) in a catch block
Caught(err) ==
    /\ error' = handleError(err).error
    /\ apiKeyConfirmed' = IF handleError(err).keyRejected THEN FALSE ELSE apiKeyConfirmed
    /\ UNCHANGED apiKey

----------------------------------------------------------------------------
(* The key screen (client variant) *)

\* App.tsx:967
setApiKey(v) ==
    /\ variant = "client" /\ ~apiKeyConfirmed
    /\ apiKey' = v
    /\ UNCHANGED << pageVars, apiKeyConfirmed, step, monumentVars, sceneVars, finalImage,
                    busyVars, error, inflight >>

\* App.tsx:708-715, from the Continue button (disabled while the key is
\* blank, App.tsx:975) or from the Enter key of the input (App.tsx:970)
handleApiKeySubmit ==
    /\ variant = "client" /\ ~apiKeyConfirmed
    /\ IF Trim(apiKey) # Empty
       THEN apiKeyConfirmed' = TRUE /\ error' = null
       ELSE /\ error' = Str(<<"Please enter a valid API key.">>)
            /\ UNCHANGED apiKeyConfirmed
    /\ UNCHANGED << pageVars, apiKey, step, monumentVars, sceneVars, finalImage, busyVars,
                    inflight >>

\* App.tsx:686-692: getGenAI throws
getGenAIThrows == ~apiKeyConfirmed \/ apiKey = Empty

ApiKeyMissing == <<"API Key not provided. Please enter your API key to continue.">>

\* a handler whose getGenAI() throws inside its try: the catch and the
\* finally run before the handler returns
KeyMissing ==
    /\ apiKeyConfirmed' = FALSE
    /\ error' = handleError(Throw(ApiKeyMissing)).error
    /\ isLoading' = FALSE
    /\ UNCHANGED << pageVars, apiKey, step, monumentVars, sceneVars, finalImage,
                    isGeneratingPrompt, inflight >>

----------------------------------------------------------------------------
(* Step 1: create the monument *)

\* a mode switch that keeps the uploaded file
changeMonumentSourceKeepsFile(source) ==
    /\ generatedMonument' = null
    /\ monumentSource' = source
    /\ error' = null
    /\ monumentPrompt' = IF source = "upload" THEN DefaultUploadMonumentPrompt
                         ELSE DefaultMonumentPrompt
    /\ UNCHANGED << pageVars, keyVars, step, monumentFile, sceneVars, finalImage, busyVars,
                    inflight >>

\* App.tsx:224-234 and 717-727
changeMonumentSource(source) ==
    /\ generatedMonument' = null
    /\ monumentFile' = null
    /\ monumentSource' = source
    /\ error' = null
    /\ monumentPrompt' = IF source = "upload" THEN DefaultUploadMonumentPrompt
                         ELSE DefaultMonumentPrompt
    /\ UNCHANGED << pageVars, keyVars, step, sceneVars, finalImage, busyVars, inflight >>

\* the From Prompt / From Image tabs, App.tsx:403-408
ClickMonumentTab ==
    /\ AppShown /\ step = "CREATE_MONUMENT"
    /\ \E source \in {"prompt", "upload"} : changeMonumentSource(source)

\* the two textareas of step 1, App.tsx:419 and 435
setMonumentPrompt ==
    /\ AppShown /\ step = "CREATE_MONUMENT"
    /\ \E v \in TypedMonumentPrompts : monumentPrompt' = v
    /\ UNCHANGED << pageVars, keyVars, step, monumentSource, monumentFile, generatedMonument,
                    sceneVars, finalImage, busyVars, error, inflight >>

\* the monument uploader, App.tsx:430
setMonumentFile ==
    /\ AppShown /\ step = "CREATE_MONUMENT" /\ monumentSource = "upload"
    /\ \E f \in MonumentFiles : monumentFile' = f
    /\ UNCHANGED << pageVars, keyVars, step, monumentSource, monumentPrompt, generatedMonument,
                    sceneVars, finalImage, busyVars, error, inflight >>

\* the handler without the check of its prompt
handleGenerateMonumentUnchecked ==
    /\ isLoading' = TRUE
    /\ error' = null
    /\ inflight' = Suspend([op |-> "handleGenerateMonument", pc |-> "generateContent",
                            prompt |-> monumentPrompt])
    /\ UNCHANGED << pageVars, keyVars, step, monumentVars, sceneVars, finalImage,
                    isGeneratingPrompt >>

\* App.tsx:247-271 and 740-778, up to the first await
handleGenerateMonument ==
    IF monumentPrompt = Empty
    THEN /\ error' = Str(<<"Please enter a prompt for the monument.">>)
         /\ UNCHANGED << pageVars, keyVars, step, monumentVars, sceneVars, finalImage,
                         busyVars, inflight >>
    ELSE IF variant = "client" /\ getGenAIThrows
    THEN KeyMissing
    ELSE /\ isLoading' = TRUE
         /\ error' = null
         /\ inflight' = Suspend([op |-> "handleGenerateMonument", pc |-> "generateContent",
                                 prompt |-> monumentPrompt])
         /\ UNCHANGED << pageVars, keyVars, step, monumentVars, sceneVars, finalImage,
                         isGeneratingPrompt >>

\* the button without its isLoading gate
GenerateMonumentEnabledWhileBusy == ~(monumentPrompt = Empty)

\* the Generate Monument button, App.tsx:424
GenerateMonumentEnabled == ~(isLoading \/ monumentPrompt = Empty)

ClickGenerateMonument ==
    /\ AppShown /\ step = "CREATE_MONUMENT" /\ monumentSource = "prompt"
    /\ GenerateMonumentEnabled
    /\ Outstanding(MainOps) < MaxMain
    /\ handleGenerateMonument

\* App.tsx:273-304 and 780-831, up to the first await
handleGenerateMonumentFromImage ==
    IF monumentFile = null \/ monumentPrompt = Empty
    THEN /\ error' = Str(IF variant = "server"
                         THEN <<"Please upload an image and provide a style prompt.">>
                         ELSE IF monumentFile = null
                         THEN <<"Please upload an image to generate a monument from.">>
                         ELSE <<"Please enter a prompt to guide the monument generation.">>)
         /\ UNCHANGED << pageVars, keyVars, step, monumentVars, sceneVars, finalImage,
                         busyVars, inflight >>
    ELSE IF variant = "client" /\ getGenAIThrows
    THEN KeyMissing
    ELSE /\ isLoading' = TRUE
         /\ error' = null
         /\ inflight' = Suspend([op |-> "handleGenerateMonumentFromImage", pc |-> "generateContent",
                                 file |-> monumentFile, prompt |-> monumentPrompt])
         /\ UNCHANGED << pageVars, keyVars, step, monumentVars, sceneVars, finalImage,
                         isGeneratingPrompt >>

\* the Generate from Image button, App.tsx:440
GenerateFromImageEnabled == ~(isLoading \/ monumentFile = null \/ monumentPrompt = Empty)

ClickGenerateFromImage ==
    /\ AppShown /\ step = "CREATE_MONUMENT" /\ monumentSource = "upload"
    /\ GenerateFromImageEnabled
    /\ Outstanding(MainOps) < MaxMain
    /\ handleGenerateMonumentFromImage

\* the Next: Place in Scene button, App.tsx:460-466
NextEnabled == ~(generatedMonument = null \/ isLoading)

ClickNext ==
    /\ AppShown /\ step = "CREATE_MONUMENT"
    /\ NextEnabled
    /\ step' = "PLACE_IN_SCENE"
    /\ UNCHANGED << pageVars, keyVars, monumentVars, sceneVars, finalImage, busyVars, error,
                    inflight >>

----------------------------------------------------------------------------
(* Step 2: place the monument in a scene *)

\* App.tsx:633-645
dataURLtoFile(dataurl, filename) ==
    File(filename, SplitComma(dataurl)[1].mime, atob(SplitComma(dataurl)[2]))

\* App.tsx:168-175, when the read succeeds
fileToBase64(file) == SplitComma(readAsDataURL(file))[2]

\* App.tsx:621-630, when the read succeeds
fileToGenerativePart(file) == InlinePart(SplitComma(readAsDataURL(file))[2], file.type)

\* the Back to Monument Creation button, App.tsx:485
ClickBack ==
    /\ AppShown /\ step = "PLACE_IN_SCENE"
    /\ step' = "CREATE_MONUMENT"
    /\ UNCHANGED << pageVars, keyVars, monumentVars, sceneVars, finalImage, busyVars, error,
                    inflight >>

\* App.tsx:236-245 and 729-738
changeSceneSource(source) ==
    /\ sceneFile' = null
    /\ error' = null
    /\ sceneSource' = source
    /\ editPrompt' = IF source = "prompt" THEN PromptSceneEditPrompt ELSE UploadSceneEditPrompt
    /\ UNCHANGED << pageVars, keyVars, step, monumentVars, scenePrompt, finalImage, busyVars,
                    inflight >>

\* the Upload Scene / Generate Scene tabs, App.tsx:490-495
ClickSceneTab ==
    /\ AppShown /\ step = "PLACE_IN_SCENE"
    /\ \E source \in {"prompt", "upload"} : changeSceneSource(source)

\* App.tsx:510
setScenePrompt ==
    /\ AppShown /\ step = "PLACE_IN_SCENE" /\ sceneSource = "prompt"
    /\ \E v \in TypedScenePrompts : scenePrompt' = v
    /\ UNCHANGED << pageVars, keyVars, step, monumentVars, sceneSource, sceneFile, editPrompt,
                    finalImage, busyVars, error, inflight >>

\* the placement instructions, disabled while isGeneratingPrompt, App.tsx:520-528
setEditPrompt ==
    /\ AppShown /\ step = "PLACE_IN_SCENE" /\ ~isGeneratingPrompt
    /\ \E v \in TypedEditPrompts : editPrompt' = v
    /\ UNCHANGED << pageVars, keyVars, step, monumentVars, sceneSource, scenePrompt, sceneFile,
                    finalImage, busyVars, error, inflight >>

\* App.tsx:306-330 and 833-858, up to the first await
handleSceneUpload(file) ==
    /\ sceneFile' = file
    /\ IF variant = "client" /\ getGenAIThrows
       THEN /\ apiKeyConfirmed' = FALSE
            /\ error' = handleError(Throw(ApiKeyMissing)).error
            /\ editPrompt' = FallbackEditPrompt
            /\ isGeneratingPrompt' = FALSE
            /\ UNCHANGED inflight
       ELSE /\ isGeneratingPrompt' = TRUE
            /\ editPrompt' = GeneratingEditPrompt
            /\ error' = null
            /\ inflight' = Suspend([op |-> "handleSceneUpload", pc |-> "generateContent",
                                    file |-> file])
            /\ UNCHANGED apiKeyConfirmed
    /\ UNCHANGED << pageVars, apiKey, step, monumentVars, sceneSource, scenePrompt, finalImage,
                    isLoading >>

\* the scene uploader, App.tsx:502; ImageUploader.tsx:14-38
UploadScene ==
    /\ AppShown /\ step = "PLACE_IN_SCENE" /\ sceneSource = "upload"
    /\ Outstanding({"handleSceneUpload"}) < MaxDescribe
    /\ \E file \in SceneFiles : handleSceneUpload(file)

\* the input check without its test of the placement instruction
PlaceInputErrorNoEditCheck ==
    IF generatedMonument = null THEN Str(<<"No monument has been created.">>)
    ELSE IF sceneSource = "upload" /\ sceneFile = null
    THEN Str(<<"Please upload a scene image.">>)
    ELSE IF sceneSource = "prompt" /\ scenePrompt = Empty
    THEN Str(<<"Please enter a prompt for the scene.">>)
    ELSE null

\* App.tsx:332-340 and 860-876: the message of the input check that fails,
\* null if none does
PlaceInputError ==
    IF generatedMonument = null THEN Str(<<"No monument has been created.">>)
    ELSE IF variant = "server"
    THEN IF \/ (sceneSource = "upload" /\ sceneFile = null)
            \/ (sceneSource = "prompt" /\ scenePrompt = Empty)
            \/ editPrompt = Empty
         THEN Str(<<"Please provide all required inputs for the scene.">>)
         ELSE null
    ELSE IF sceneSource = "upload" /\ sceneFile = null
    THEN Str(<<"Please upload a scene image.">>)
    ELSE IF sceneSource = "prompt" /\ scenePrompt = Empty
    THEN Str(<<"Please enter a prompt for the scene.">>)
    ELSE IF editPrompt = Empty
    THEN Str(<<"Please provide editing instructions.">>)
    ELSE null

\* the placement that starts without raising isLoading
handlePlaceMonumentNoFlag ==
    /\ PlaceInputError = null
    /\ ~(variant = "client" /\ getGenAIThrows)
    /\ error' = null
    /\ inflight' = Suspend([op |-> "handlePlaceMonument",
                            pc |-> IF sceneSource = "prompt" THEN "scene" ELSE "composite",
                            generatedMonument |-> generatedMonument,
                            sceneSource |-> sceneSource,
                            scenePrompt |-> IF sceneSource = "prompt" THEN scenePrompt
                                            ELSE Empty,
                            sceneFile |-> sceneFile,
                            editPrompt |-> editPrompt,
                            scene |-> null])
    /\ UNCHANGED << pageVars, keyVars, step, monumentVars, sceneVars, finalImage, busyVars >>

\* App.tsx:332-356 and 860-907, up to the first await
handlePlaceMonument ==
    IF PlaceInputError # null
    THEN /\ error' = PlaceInputError
         /\ UNCHANGED << pageVars, keyVars, step, monumentVars, sceneVars, finalImage,
                         busyVars, inflight >>
    ELSE IF variant = "client" /\ getGenAIThrows
    THEN KeyMissing
    ELSE /\ isLoading' = TRUE
         /\ error' = null
         /\ inflight' = Suspend([op |-> "handlePlaceMonument",
                                 pc |-> IF sceneSource = "prompt" THEN "scene" ELSE "composite",
                                 generatedMonument |-> generatedMonument,
                                 sceneSource |-> sceneSource,
                                 scenePrompt |-> IF sceneSource = "prompt" THEN scenePrompt
                                                 ELSE Empty,
                                 sceneFile |-> sceneFile,
                                 editPrompt |-> editPrompt,
                                 scene |-> null])
         /\ UNCHANGED << pageVars, keyVars, step, monumentVars, sceneVars, finalImage,
                         isGeneratingPrompt >>

\* the Place Monument button, App.tsx:531-537
PlaceEnabled ==
    ~(\/ isLoading
      \/ isGeneratingPrompt
      \/ (sceneSource = "upload" /\ sceneFile = null)
      \/ (sceneSource = "prompt" /\ scenePrompt = Empty)
      \/ editPrompt = Empty)

ClickPlace ==
    /\ AppShown /\ step = "PLACE_IN_SCENE"
    /\ PlaceEnabled
    /\ Outstanding(MainOps) < MaxMain
    /\ handlePlaceMonument

----------------------------------------------------------------------------
(* Step 3: share *)

\* the Start Over button, App.tsx:587-599 and 1189-1201
StartOver ==
    /\ AppShown /\ step = "SHARE"
    /\ step' = "CREATE_MONUMENT"
    /\ generatedMonument' = null
    /\ finalImage' = null
    /\ sceneFile' = null
    /\ error' = null
    /\ UNCHANGED << pageVars, keyVars, monumentSource, monumentPrompt, monumentFile,
                    sceneSource, scenePrompt, editPrompt, busyVars, inflight >>

----------------------------------------------------------------------------
(* The handlers resume: a file read or a call settles *)

Replace(r, r2) == (inflight (-) SetToBag({r})) (+) SetToBag({r2})

\* what an image call of the wizard may end with; behind the proxy the
\* POST itself may fail
FetchFailed == [kind |-> "fetchfail"]
ImageCallOutcomes == IF variant = "server" THEN ImageOutcomes \cup {FetchFailed} ELSE ImageOutcomes
TextCallOutcomes == IF variant = "server" THEN TextOutcomes \cup {FetchFailed} ELSE TextOutcomes

\* The image URL a monument generation obtains, or what it throws:
\* App.tsx:256-265 / 285-298 through the proxy, App.tsx:760-772 / 808-825 directly.
GenerateResult(call, body, o, emptyMessage) ==
    IF variant = "server"
    THEN IF o.kind = "fetchfail" THEN Throw(<<"Failed to fetch">>)
         ELSE LET got == callGenerateApi(handler(Post(body), <<o>>))
              IN  IF got.tag = "throw" THEN got
                  ELSE IF "imageUrl" \in DOMAIN got.value THEN Return(got.value.imageUrl)
                  ELSE Throw(emptyMessage)
    ELSE IF o.kind = "raise" THEN Throw(o.message)
         ELSE LET imageUrl == getImageUrlFromResponse(Respond(call, o.shape))
              IN  IF imageUrl # null THEN Return(imageUrl) ELSE Throw(emptyMessage)

\* the end of a monument generation that tries its call again when it failed
MonumentSettledRetries(r, result) ==
    /\ IF result.tag = "return"
       THEN /\ generatedMonument' = result.value
            /\ isLoading' = FALSE
            /\ inflight' = Resume(r)
            /\ UNCHANGED << error, keyVars >>
       ELSE /\ Caught(result)
            /\ UNCHANGED << generatedMonument, isLoading, inflight >>
    /\ UNCHANGED << pageVars, step, monumentSource, monumentPrompt, monumentFile, sceneVars,
                    finalImage, isGeneratingPrompt >>

\* App.tsx:261-270 and 768-777: the end of a monument generation
MonumentSettled(r, result) ==
    /\ IF result.tag = "return"
       THEN generatedMonument' = result.value /\ UNCHANGED << error, keyVars >>
       ELSE Caught(result) /\ UNCHANGED generatedMonument
    /\ isLoading' = FALSE
    /\ inflight' = Resume(r)
    /\ UNCHANGED << pageVars, step, monumentSource, monumentPrompt, monumentFile, sceneVars,
                    finalImage, isGeneratingPrompt >>

\* A handler that reads a file awaits the read and then the call; no state
\* changes between the two, so they are one suspension here, which may end
\* with the read failing.
ReadFailed == [kind |-> "readfail"]

\* A read that fails: fileToBase64 rejects with the reader's error event
\* (App.tsx:172), and the handler's catch runs (`settled`);
\* fileToGenerativePart has no onerror and its onloadend throws on the null
\* result, so its promise never settles and the handler never resumes
\* (App.tsx:622-626).
ReadFails(r, settled) ==
    IF variant = "server" THEN settled
    ELSE /\ inflight' = Resume(r)
         /\ UNCHANGED << pageVars, keyVars, step, monumentVars, sceneVars, finalImage,
                         busyVars, error >>

Proceeds(r, r2) ==
    /\ inflight' = Replace(r, r2)
    /\ UNCHANGED << pageVars, keyVars, step, monumentVars, sceneVars, finalImage, busyVars,
                    error >>

\* the image call of a generation from a prompt, App.tsx:760-766 and
\* generate.ts:44-56
MonumentCall(r) == ImageRequest(<<TextPart(MonumentFromTextPrompt(r.prompt))>>)

\* the body handleGenerateMonument posts, App.tsx:256-259
MonumentBody(r) == [type |-> "generateMonumentFromPrompt", prompt |-> r.prompt]

\* handleGenerateMonument `r` resumes with the outcome `o` of its call
GenerateMonumentSettlesWith(r, o) ==
    MonumentSettled(r, GenerateResult(MonumentCall(r), MonumentBody(r), o,
                                      <<"No image was generated.">>))

GenerateMonumentSettles ==
    \E r \in Suspended({"handleGenerateMonument"}), o \in ImageCallOutcomes :
        GenerateMonumentSettlesWith(r, o)

\* the image call of a generation from an image, App.tsx:808-819 and
\* generate.ts:70-83
MonumentFromImageCall(r) ==
    ImageRequest(<<fileToGenerativePart(r.file), TextPart(MonumentFromImagePrompt(r.prompt))>>)

\* the body handleGenerateMonumentFromImage posts, App.tsx:286-293
MonumentFromImageBody(r) ==
    [type |-> "generateMonumentFromImage", prompt |-> r.prompt,
     image |-> [data |-> fileToBase64(r.file), mimeType |-> r.file.type]]

\* handleGenerateMonumentFromImage `r` resumes: the read failed, or the
\* call ended with `o`
GenerateFromImageSettlesWith(r, o) ==
    IF o = ReadFailed THEN ReadFails(r, MonumentSettled(r, RejectEvent))
    ELSE MonumentSettled(r,
        GenerateResult(MonumentFromImageCall(r), MonumentFromImageBody(r), o,
                       <<"No image was generated from the provided image.">>))

GenerateFromImageSettles ==
    \E r \in Suspended({"handleGenerateMonumentFromImage"}),
       o \in ImageCallOutcomes \cup {ReadFailed} :
        GenerateFromImageSettlesWith(r, o)

\* the body handleSceneUpload posts, App.tsx:313-319
DescribeBody(file) ==
    [type |-> "describeScene",
     image |-> [data |-> fileToBase64(file), mimeType |-> file.type]]

\* the description call of the client variant, App.tsx:840-846
DescribeCall(file) == TextRequest(<<fileToGenerativePart(file), TextPart(DescribePrompt)>>)

\* The description a scene upload obtains, or what it throws:
\* App.tsx:313-319 through the proxy, App.tsx:843-848 directly.
DescribeResult(file, o) ==
    IF variant = "server"
    THEN IF o.kind = "fetchfail" THEN Throw(<<"Failed to fetch">>)
         ELSE LET got == callGenerateApi(handler(Post(DescribeBody(file)), <<o>>))
              IN  IF got.tag = "throw" THEN got ELSE Return(got.value.description)
    ELSE IF o.kind = "raise" THEN Throw(o.message)
         ELSE IF o.kind = "notext"
         THEN Throw(<<"Cannot read properties of undefined (reading 'trim')">>)
         ELSE Return(Trim(DescriptionOf(fileToGenerativePart(file).inlineData)))

\* the end of a scene upload without its finally block
DescribeSettledStaysBusy(r, result) ==
    /\ IF result.tag = "return"
       THEN /\ editPrompt' = DescribedEditPrompt(result.value)
            /\ UNCHANGED << error, keyVars >>
       ELSE /\ Caught(result)
            /\ editPrompt' = FallbackEditPrompt
    /\ inflight' = Resume(r)
    /\ UNCHANGED << pageVars, step, monumentVars, sceneSource, scenePrompt, sceneFile,
                    finalImage, isLoading, isGeneratingPrompt >>

\* App.tsx:321-329 and 849-857: the end of a scene upload
DescribeSettled(r, result) ==
    /\ IF result.tag = "return"
       THEN /\ editPrompt' = DescribedEditPrompt(result.value)
            /\ UNCHANGED << error, keyVars >>
       ELSE /\ Caught(result)
            /\ editPrompt' = FallbackEditPrompt
    /\ isGeneratingPrompt' = FALSE
    /\ inflight' = Resume(r)
    /\ UNCHANGED << pageVars, step, monumentVars, sceneSource, scenePrompt, sceneFile,
                    finalImage, isLoading >>

\* handleSceneUpload `r` resumes: the read failed, or the call ended with `o`
SceneUploadSettlesWith(r, o) ==
    IF o = ReadFailed THEN ReadFails(r, DescribeSettled(r, RejectEvent))
    ELSE DescribeSettled(r, DescribeResult(r.file, o))

SceneUploadSettles ==
    \E r \in Suspended({"handleSceneUpload"}), o \in TextCallOutcomes \cup {ReadFailed} :
        SceneUploadSettlesWith(r, o)

\* the body handlePlaceMonument posts, App.tsx:358-365
PlaceBody(r) ==
    [type |-> "placeMonument",
     sceneSource |-> r.sceneSource,
     scenePrompt |-> r.scenePrompt,
     sceneImage |-> IF r.sceneSource = "upload"
                    THEN [data |-> fileToBase64(r.sceneFile), mimeType |-> r.sceneFile.type]
                    ELSE null,
     monumentImage |-> [data |-> SplitComma(r.generatedMonument)[2], mimeType |-> "image/png"],
     editPrompt |-> r.editPrompt]

\* the scene call of the client variant, App.tsx:887-891
ClientSceneCall(r) == ImageRequest(<<TextPart(r.scenePrompt)>>)

\* the composite call with the monument before the scene
ClientFinalCallMonumentFirst(r) ==
    LET sceneToUseFile == IF r.sceneSource = "prompt" THEN r.scene ELSE r.sceneFile
        monumentFile_ == dataURLtoFile(r.generatedMonument, "monument.png")
    IN  ImageRequest(<<fileToGenerativePart(monumentFile_),
                       fileToGenerativePart(sceneToUseFile),
                       TextPart(FinalEditPrompt(r.editPrompt))>>)

\* the composite call of the client variant, App.tsx:906-932
ClientFinalCall(r) ==
    LET sceneToUseFile == IF r.sceneSource = "prompt" THEN r.scene ELSE r.sceneFile
        monumentFile_ == dataURLtoFile(r.generatedMonument, "monument.png")
    IN  ImageRequest(<<fileToGenerativePart(sceneToUseFile),
                       fileToGenerativePart(monumentFile_),
                       TextPart(FinalEditPrompt(r.editPrompt))>>)

\* the proxy going on whatever the scene call gave
ProxySceneNeverFails(r, o) == FALSE

\* the scene call behind the proxy fails: it raises or returns no image
\* (generate.ts:113-119)
ProxySceneFails(r, o) ==
    \/ o.kind = "raise"
    \/ getResponseImage(Respond(ImageRequest(<<TextPart(r.scenePrompt)>>), o.shape)) = null

\* The final image a placement obtains from the composite call `o`, or
\* what it throws: App.tsx:358-373 through the proxy, App.tsx:922-941 directly.
PlaceResult(r, o) ==
    IF variant = "server"
    THEN IF o.kind = "fetchfail" THEN Throw(<<"Failed to fetch">>)
         ELSE LET got == callGenerateApi(handler(Post(PlaceBody(r)),
                             IF r.sceneSource = "prompt" THEN <<r.scene, o>> ELSE <<o>>))
              IN  IF got.tag = "throw" THEN got
                  ELSE IF "finalImageUrl" \in DOMAIN got.value
                  THEN Return(got.value.finalImageUrl)
                  ELSE Throw(<<"Failed to generate the final image.">>)
    ELSE IF o.kind = "raise" THEN Throw(o.message)
         ELSE LET finalImageUrl == getImageUrlFromResponse(Respond(ClientFinalCall(r), o.shape))
              IN  IF finalImageUrl # null THEN Return(finalImageUrl)
                  ELSE Throw(<<"Failed to generate the final image.">>)

\* the end of a placement that shows the Share step whatever the result
PlaceSettledAlwaysShares(r, result) ==
    /\ IF result.tag = "return"
       THEN /\ finalImage' = result.value
            /\ UNCHANGED << error, keyVars >>
       ELSE /\ Caught(result)
            /\ UNCHANGED finalImage
    /\ step' = "SHARE"
    /\ isLoading' = FALSE
    /\ inflight' = Resume(r)
    /\ UNCHANGED << pageVars, monumentVars, sceneVars, isGeneratingPrompt >>

\* App.tsx:368-379 and 936-947: the end of a placement
PlaceSettled(r, result) ==
    /\ IF result.tag = "return"
       THEN /\ finalImage' = result.value
            /\ step' = "SHARE"
            /\ UNCHANGED << error, keyVars >>
       ELSE /\ Caught(result)
            /\ UNCHANGED << finalImage, step >>
    /\ isLoading' = FALSE
    /\ inflight' = Resume(r)
    /\ UNCHANGED << pageVars, monumentVars, sceneVars, isGeneratingPrompt >>

\* the scene generated from the prompt arrives (or does not)
PlaceSceneSettlesWith(r, o) ==
    /\ r.pc = "scene"
    /\ IF variant = "server"
       THEN IF o.kind = "fetchfail" THEN PlaceSettled(r, Throw(<<"Failed to fetch">>))
            ELSE IF ProxySceneFails(r, o)
            THEN PlaceSettled(r, callGenerateApi(handler(Post(PlaceBody(r)), <<o>>)))
            ELSE Proceeds(r, [r EXCEPT !.pc = "composite", !.scene = o])
       ELSE IF o.kind = "raise" THEN PlaceSettled(r, Throw(o.message))
            ELSE LET sceneImageUrl ==
                         getImageUrlFromResponse(Respond(ClientSceneCall(r), o.shape))
                 IN  IF sceneImageUrl = null
                     THEN PlaceSettled(r,
                              Throw(<<"Failed to generate a scene from the prompt.">>))
                     ELSE Proceeds(r, [r EXCEPT !.pc = "composite",
                                                !.scene = dataURLtoFile(sceneImageUrl,
                                                                        "scene.png")])

PlaceSceneSettles ==
    \E r \in Suspended({"handlePlaceMonument"}), o \in ImageCallOutcomes :
        PlaceSceneSettlesWith(r, o)

\* The uploaded scene is read (App.tsx:352 and 907) and the composite
\* call settles.  Only a file of the user's can fail to be read.
PlaceCompositeSettlesWith(r, o) ==
    /\ r.pc = "composite"
    /\ o = ReadFailed => r.sceneSource = "upload"
    /\ IF o = ReadFailed THEN ReadFails(r, PlaceSettled(r, RejectEvent))
       ELSE PlaceSettled(r, PlaceResult(r, o))

PlaceCompositeSettles ==
    \E r \in Suspended({"handlePlaceMonument"}), o \in ImageCallOutcomes \cup {ReadFailed} :
        PlaceCompositeSettlesWith(r, o)

\* the composite call of placement `r`, whose result is `o`:
\* generate.ts:138-148, App.tsx:906-932
CompositeCall(r, o) ==
    IF variant = "server"
    THEN LET calls == handler(Post(PlaceBody(r)),
                              IF r.sceneSource = "prompt" THEN <<r.scene, o>> ELSE <<o>>).calls
         IN  calls[Len(calls)]
    ELSE ClientFinalCall(r)

\* the endpoint calls, in order, of a placement from a scene prompt whose
\* composite call ends with `o`: generate.ts:113-148, App.tsx:887-932
PromptPlaceCalls(r, o) ==
    IF variant = "server"
    THEN handler(Post(PlaceBody(r)), <<r.scene, o>>).calls
    ELSE <<ClientSceneCall(r), ClientFinalCall(r)>>

----------------------------------------------------------------------------
(* The wizard *)

\* what the user and the outstanding calls can do once the wizard is shown
Next ==
    \/ ClickMonumentTab
    \/ setMonumentPrompt
    \/ setMonumentFile
    \/ ClickGenerateMonument
    \/ ClickGenerateFromImage
    \/ ClickNext
    \/ ClickBack
    \/ ClickSceneTab
    \/ setScenePrompt
    \/ setEditPrompt
    \/ UploadScene
    \/ ClickPlace
    \/ StartOver
    \/ GenerateMonumentSettles
    \/ GenerateFromImageSettles
    \/ SceneUploadSettles
    \/ PlaceSceneSettles
    \/ PlaceCompositeSettles

\* the server-proxied wizard, App.tsx:161-611 with api/generate.ts
Init == InitWizard("server")

Spec == Init /\ [][Next]_vars

\* the client-key wizard, App.tsx:613-1214
InitClient == InitWizard("client")

NextClient ==
    \/ \E v \in TypedKeys : setApiKey(v)
    \/ handleApiKeySubmit
    \/ Next

SpecClient == InitClient /\ [][NextClient]_vars


----------------------------------------------------------------------------
(* The one-page generators: App.tsx:1-159, which calls generateMonumentImage
   (unnamed/part_000), and unnamed/part_004, which calls generateMonument
   (services/geminiService.ts).  Both keep prompt, a reference image, the
   generated image, isLoading and error. *)

MaxReads == 2

Pages == {"generateMonumentImage", "generateMonument"}
TypedPrompts == { Empty, <<" ">>, <<"a lion">> }

InitSingle ==
    /\ \E v \in Pages : InitWizard(v)

\* the textarea: App.tsx:80-87; part_004:77-82 (disabled while loading)
setPrompt ==
    /\ variant \in Pages
    /\ variant = "generateMonument" => ~isLoading
    /\ \E v \in TypedPrompts : prompt' = v
    /\ UNCHANGED << envVars, uploadedImage, generatedImage, wizardVars, isLoading, error,
                    inflight >>

\* App.tsx:16-29, with a file or with null
handleImageSelect ==
    /\ variant = "generateMonumentImage"
    /\ \E file \in MonumentFiles \cup {null} :
          uploadedImage' = IF file = null THEN null ELSE [file |-> file]
    /\ UNCHANGED << envVars, prompt, generatedImage, wizardVars, isLoading, error, inflight >>

\* part_004:30-34, up to the await of the read; the uploader is disabled
\* while loading (part_004:91)
handleImageUpload ==
    /\ variant = "generateMonument" /\ ~isLoading
    /\ Outstanding({"handleImageUpload"}) < MaxReads
    /\ \E file \in MonumentFiles :
          inflight' = Suspend([op |-> "handleImageUpload", pc |-> "fileToBase64",
                               file |-> file])
    /\ error' = null
    /\ UNCHANGED << pageVars, wizardVars, isLoading >>

\* part_004:33-38: the read ends
ImageUploadSettles ==
    \E r \in Suspended({"handleImageUpload"}), read \in BOOLEAN :
        /\ IF read
           THEN /\ uploadedImage' = [base64 |-> fileToBase64(r.file),
                                     mimeType |-> r.file.type, name |-> r.file.name]
                /\ UNCHANGED error
           ELSE /\ error' = Str(<<"Failed to process the image. Please try another one.">>)
                /\ UNCHANGED uploadedImage
        /\ inflight' = Resume(r)
        /\ UNCHANGED << envVars, prompt, generatedImage, wizardVars, isLoading >>

\* part_003:41-46, the button that removes the image (disabled while loading)
handleClearImage ==
    /\ variant = "generateMonument" /\ ~isLoading /\ uploadedImage # null
    /\ uploadedImage' = null
    /\ UNCHANGED << envVars, prompt, generatedImage, wizardVars, isLoading, error, inflight >>

\* the check before anything is set: App.tsx:32-35, part_004:42-45
GenerateInputError ==
    IF variant = "generateMonumentImage"
    THEN IF Trim(prompt) = Empty
         THEN Str(<<"Please enter a prompt to describe the monument.">>) ELSE null
    ELSE IF prompt = Empty /\ uploadedImage = null
         THEN Str(<<"Please provide a prompt or upload an image.">>) ELSE null

\* App.tsx:31-39 and part_004:41-49, up to the first await.  `shown` is
\* not a value of the code: it keeps what was on screen at submission.
handleGenerate ==
    IF GenerateInputError # null
    THEN /\ error' = GenerateInputError
         /\ UNCHANGED << pageVars, wizardVars, isLoading, inflight >>
    ELSE /\ isLoading' = TRUE
         /\ error' = null
         /\ generatedImage' = null
         /\ inflight' = Suspend([op |-> "handleGenerate", pc |-> "generateContent",
                                 prompt |-> prompt, image |-> uploadedImage,
                                 shown |-> generatedImage])
         /\ UNCHANGED << envVars, prompt, uploadedImage, wizardVars >>

\* App.tsx:98 and part_004:67, 95
canGenerate ==
    IF variant = "generateMonumentImage" THEN ~(isLoading \/ prompt = Empty)
    ELSE (Trim(prompt) # Empty \/ uploadedImage # null) /\ ~isLoading

\* the Generate Monument button
ClickGenerate ==
    /\ variant \in Pages /\ canGenerate
    /\ Outstanding({"handleGenerate"}) < MaxMain
    /\ handleGenerate

\* Enter in the textarea of part_004 (components/ImageUploader.tsx:89-94),
\* which is disabled while loading
PressEnter ==
    /\ variant = "generateMonument" /\ ~isLoading
    /\ Outstanding({"handleGenerate"}) < MaxMain
    /\ handleGenerate

\* unnamed/part_000:12-21: the parts of the request
generateMonumentImageParts(prompt_, image) ==
    IF image = null THEN <<TextPart(prompt_)>>
    ELSE <<InlinePart(image.base64, image.mimeType), TextPart(prompt_)>>

\* unnamed/part_000:4-49: the call ends with outcome `o`
generateMonumentImage(prompt_, image, o) ==
    LET parts == generateMonumentImageParts(prompt_, image)
        failed == Throw(<<"Failed to generate image. Please check your prompt or API key and try again.">>)
    IN  IF o.kind = "raise" THEN failed
        ELSE LET response == Respond(ImageRequest(parts), o.shape)
                 part == IF Len(response.candidates) > 0
                         THEN FirstInline(response.candidates[1], 1) ELSE null
             IN  IF part = null THEN failed
                 ELSE Return(DataUrl(part.inlineData.mimeType, part.inlineData.data))

\* services/geminiService.ts:17-39: the parts of the request, when a
\* prompt or an image is given
generateMonumentParts(prompt_, image) ==
    LET finalPrompt ==
            IF prompt_ # Empty /\ image # null
            THEN <<"Create a photorealistic monument of ">> \o prompt_
                     \o <<", stylistically inspired by the provided image.">>
            ELSE IF prompt_ # Empty
            THEN <<"A photorealistic, majestic, and grand monument of ">> \o prompt_ \o <<".">>
            ELSE <<"Transform the subject of this image into a majestic stone monument.">>
    IN  IF image = null THEN <<TextPart(finalPrompt)>>
        ELSE <<InlinePart(image.data, image.mimeType), TextPart(finalPrompt)>>

\* services/geminiService.ts:10-61, with API_KEY set: the call ends with `o`
generateMonument(prompt_, image, o) ==
    LET parts == generateMonumentParts(prompt_, image)
        failed == Throw(<<"Failed to generate image. The model may have refused the request due to safety policies or other issues.">>)
    IN  IF prompt_ = Empty /\ image = null THEN Throw(<<"A prompt or an image is required.">>)
        ELSE IF o.kind = "raise" THEN failed
        ELSE LET response == Respond(ImageRequest(parts), o.shape)
             IN  IF Len(response.candidates) = 0 THEN failed
                 ELSE LET part == FirstInline(response.candidates[1], 1)
                      IN  IF part = null THEN Return(null)
                          ELSE Return(part.inlineData.data)

\* what handleGenerate's try block ends with: App.tsx:41-51, part_004:52-58
GenerateOutcome(r, o) ==
    IF variant = "generateMonumentImage"
    THEN IF o = ReadFailed THEN RejectEvent
         ELSE generateMonumentImage(
                  r.prompt,
                  IF r.image = null THEN null
                  ELSE [base64 |-> fileToBase64(r.image.file),
                        mimeType |-> r.image.file.type],
                  o)
    ELSE LET resultBase64 ==
                 generateMonument(
                     r.prompt,
                     IF r.image = null THEN null
                     ELSE [data |-> r.image.base64, mimeType |-> r.image.mimeType],
                     o)
         IN  IF resultBase64.tag = "throw" THEN resultBase64
             ELSE IF resultBase64.value = null
             THEN Throw(<<"The API did not return an image.">>)
             ELSE Return(DataUrl("image/png", resultBase64.value))

\* App.tsx:51-57 and part_004:54-64: handleGenerate `r` resumes with `o`
GenerateSettlesWith(r, o) ==
    /\ r \in Suspended({"handleGenerate"})
    /\ o = ReadFailed => (variant = "generateMonumentImage" /\ r.image # null)
    /\ LET result == GenerateOutcome(r, o)
       IN  IF result.tag = "return"
           THEN generatedImage' = result.value /\ UNCHANGED error
           ELSE /\ error' = Str(IF result.isError THEN result.message
                                ELSE <<"An unknown error occurred.">>)
                /\ UNCHANGED generatedImage
    /\ isLoading' = FALSE
    /\ inflight' = Resume(r)
    /\ UNCHANGED << envVars, prompt, uploadedImage, wizardVars >>

GenerateSettles ==
    \E r \in Suspended({"handleGenerate"}), o \in ImageOutcomes \cup {ReadFailed} :
        GenerateSettlesWith(r, o)

NextSingle ==
    \/ setPrompt
    \/ handleImageSelect
    \/ handleImageUpload
    \/ ImageUploadSettles
    \/ handleClearImage
    \/ ClickGenerate
    \/ PressEnter
    \/ GenerateSettles

SpecSingle == InitSingle /\ [][NextSingle]_vars

----------------------------------------------------------------------------
(* The handlers called directly, as a test calls them: the controls that
   trigger them are disabled for most of the inputs their own checks
   reject, so these branches are reached only by calling the handler with
   each combination of the values it reads. *)

SomeMonument ==
    DataUrl("image/png",
            btoa(GeneratedBytes(
                     ImageRequest(<<TextPart(MonumentFromTextPrompt(DefaultMonumentPrompt))>>),
                     1)))

InitHandlers ==
    /\ variant \in {"server", "client"}
    /\ responses = ResponseShapes
    /\ apiKey = IF variant = "client" THEN <<"AIza-user-key">> ELSE Empty
    /\ apiKeyConfirmed = (variant = "client")
    /\ step = "PLACE_IN_SCENE"
    /\ monumentSource = "prompt"
    /\ monumentPrompt = DefaultMonumentPrompt
    /\ monumentFile = null
    /\ generatedMonument \in {null, SomeMonument}
    /\ sceneSource \in {"upload", "prompt"}
    /\ scenePrompt \in {Empty, DefaultScenePrompt}
    /\ sceneFile \in {null} \cup SceneFiles
    /\ editPrompt \in {Empty, InitialEditPrompt}
    /\ finalImage = null
    /\ isLoading = FALSE
    /\ isGeneratingPrompt = FALSE
    /\ error = null
    /\ prompt = Empty
    /\ uploadedImage = null
    /\ generatedImage = null
    /\ sent = null
    /\ inflight = EmptyBag

\* handlePlaceMonument() called whatever the Place Monument button shows
CallPlaceMonument ==
    /\ Outstanding(MainOps) < MaxMain
    /\ handlePlaceMonument

NextHandlers ==
    \/ CallPlaceMonument
    \/ PlaceSceneSettles
    \/ PlaceCompositeSettles

SpecHandlers == InitHandlers /\ [][NextHandlers]_vars

----------------------------------------------------------------------------
(* The generation handlers called directly: the wizards at step 1 and the
   one-page generators, with and without each input the handlers check. *)

InitDirect ==
    \/ InitSingle
    \/ /\ variant \in {"server", "client"}
       /\ responses = ResponseShapes
       /\ apiKey = IF variant = "client" THEN <<"AIza-user-key">> ELSE Empty
       /\ apiKeyConfirmed = (variant = "client")
       /\ step = "CREATE_MONUMENT"
       /\ monumentSource \in {"prompt", "upload"}
       /\ monumentPrompt \in {Empty, IF monumentSource = "prompt" THEN DefaultMonumentPrompt
                                     ELSE DefaultUploadMonumentPrompt}
       /\ monumentFile \in IF monumentSource = "upload" THEN MonumentFiles \cup {null}
                           ELSE {null}
       /\ generatedMonument = null
       /\ sceneSource = "upload"
       /\ scenePrompt = DefaultScenePrompt
       /\ sceneFile = null
       /\ editPrompt = InitialEditPrompt
       /\ finalImage = null
       /\ isLoading = FALSE
       /\ isGeneratingPrompt = FALSE
       /\ error = null
       /\ prompt = Empty
       /\ uploadedImage = null
       /\ generatedImage = null
       /\ sent = null
       /\ inflight = EmptyBag

\* handleGenerateMonument() called whatever its button shows
CallGenerateMonument ==
    /\ variant \in {"server", "client"}
    /\ Outstanding(MainOps) < MaxMain
    /\ handleGenerateMonument

\* handleGenerateMonumentFromImage() called whatever its button shows
CallGenerateFromImage ==
    /\ variant \in {"server", "client"}
    /\ Outstanding(MainOps) < MaxMain
    /\ handleGenerateMonumentFromImage

\* handleGenerate() of a one-page generator called whatever its button shows
CallGenerate ==
    /\ variant \in Pages
    /\ Outstanding({"handleGenerate"}) < MaxMain
    /\ handleGenerate

NextDirect ==
    \/ CallGenerateMonument
    \/ CallGenerateFromImage
    \/ GenerateMonumentSettles
    \/ GenerateFromImageSettles
    \/ CallGenerate
    \/ NextSingle

SpecDirect == InitDirect /\ [][NextDirect]_vars

----------------------------------------------------------------------------
(* The submissions on their own: either wizard at one of its two working
   steps with the inputs of a submission in place, the four controls that
   start a handler, and the handlers' calls answered with a response of
   any shape, where the user does not navigate; and the one-page
   generators. *)

InitSubmissions ==
  \/ InitSingle
  \/
    /\ variant \in {"server", "client"}
    /\ responses = ResponseShapes
    /\ apiKey = IF variant = "client" THEN <<"AIza-user-key">> ELSE Empty
    /\ apiKeyConfirmed = (variant = "client")
    /\ step \in {"CREATE_MONUMENT", "PLACE_IN_SCENE"}
    /\ monumentSource \in {"prompt", "upload"}
    /\ step = "PLACE_IN_SCENE" => monumentSource = "prompt"
    /\ monumentPrompt = IF monumentSource = "prompt" THEN DefaultMonumentPrompt
                        ELSE DefaultUploadMonumentPrompt
    /\ monumentFile \in IF monumentSource = "upload" THEN MonumentFiles ELSE {null}
    /\ generatedMonument = IF step = "PLACE_IN_SCENE" THEN SomeMonument ELSE null
    /\ sceneSource \in {"upload", "prompt"}
    /\ step = "CREATE_MONUMENT" => sceneSource = "upload"
    /\ scenePrompt = DefaultScenePrompt
    /\ sceneFile = null
    /\ editPrompt = IF sceneSource = "prompt" THEN PromptSceneEditPrompt
                    ELSE InitialEditPrompt
    /\ finalImage = null
    /\ isLoading = FALSE
    /\ isGeneratingPrompt = FALSE
    /\ error = null
    /\ prompt = Empty
    /\ uploadedImage = null
    /\ generatedImage = null
    /\ sent = null
    /\ inflight = EmptyBag

NextSubmissions ==
    \/ ClickGenerateMonument
    \/ ClickGenerateFromImage
    \/ UploadScene
    \/ ClickPlace
    \/ GenerateMonumentSettles
    \/ GenerateFromImageSettles
    \/ SceneUploadSettles
    \/ PlaceSceneSettles
    \/ PlaceCompositeSettles
    \/ NextSingle

SpecSubmissions == InitSubmissions /\ [][NextSubmissions]_vars

----------------------------------------------------------------------------
(* The /api/generate handler on its own: it is given any request, with a
   method that is POST or not and a type it knows or not, and its endpoint
   calls end in any way.  An invocation serves one request; the handler
   keeps nothing between requests. *)

RequestMethods == {"POST", "GET"}

\* the bodies a request may carry: those the wizard posts (with an empty
\* text too: the handler does not check its inputs) and one of a type the
\* handler does not know
RequestBodies ==
    { MonumentBody([prompt |-> p]) : p \in {Empty, DefaultMonumentPrompt} }
    \cup { MonumentFromImageBody([prompt |-> DefaultUploadMonumentPrompt, file |-> f]) :
             f \in MonumentFiles \cup SceneFiles }
    \cup { DescribeBody(f) : f \in MonumentFiles \cup SceneFiles }
    \cup { PlaceBody([sceneSource |-> src, scenePrompt |-> DefaultScenePrompt,
                      sceneFile |-> f, generatedMonument |-> SomeMonument,
                      editPrompt |-> e]) :
             src \in {"prompt", "upload"}, f \in SceneFiles,
             e \in {Empty, InitialEditPrompt} }
    \cup { [type |-> "upscale", prompt |-> DefaultMonumentPrompt] }

KnownTypes ==
    {"generateMonumentFromPrompt", "generateMonumentFromImage", "describeScene", "placeMonument"}

\* the endpoint calls request `req` leads to, at most
CallsAwaited(req) ==
    IF req.method # "POST" \/ req.body.type \notin KnownTypes THEN 0
    ELSE IF req.body.type = "placeMonument" /\ req.body.sceneSource = "prompt" THEN 2
    ELSE 1

\* what these calls may end with, in order
CallOutcomes(req) ==
    IF CallsAwaited(req) = 0 THEN { << >> }
    ELSE IF req.body.type = "describeScene" THEN { <<o>> : o \in TextOutcomes }
    ELSE IF CallsAwaited(req) = 1 THEN { <<o>> : o \in ImageOutcomes }
    ELSE { <<o1, o2>> : o1 \in ImageOutcomes, o2 \in ImageOutcomes }

InitProxy ==
    /\ InitWizard("proxy")

\* a request arrives (generate.ts:33); one that needs no call is answered
\* at once (generate.ts:34-36, 159)
HandlerReceives ==
    /\ variant = "proxy" /\ inflight = EmptyBag
    /\ \E method \in RequestMethods, body \in RequestBodies :
          LET req == [method |-> method, body |-> body]
          IN  IF CallsAwaited(req) = 0
              THEN /\ sent' = [req |-> req, outcomes |-> << >>,
                               responses |-> <<handler(req, << >>)>>]
                   /\ UNCHANGED inflight
              ELSE /\ sent' = [req |-> req, outcomes |-> << >>, responses |-> << >>]
                   /\ inflight' = Suspend([op |-> "handler", pc |-> "generateContent",
                                           req |-> req])
    /\ UNCHANGED << variant, responses, prompt, uploadedImage, generatedImage, wizardVars,
                    isLoading, error >>

\* the calls of the handler have ended and it answers (generate.ts:42-163)
HandlerAnswers ==
    /\ variant = "proxy"
    /\ \E r \in Suspended({"handler"}) : \E outcomes \in CallOutcomes(r.req) :
          /\ sent' = [sent EXCEPT !.outcomes = outcomes,
                                  !.responses = Append(@, handler(r.req, outcomes))]
          /\ inflight' = Resume(r)
    /\ UNCHANGED << variant, responses, prompt, uploadedImage, generatedImage, wizardVars,
                    isLoading, error >>

NextProxy ==
    \/ HandlerReceives
    \/ HandlerAnswers

SpecProxy == InitProxy /\ [][NextProxy]_vars

----------------------------------------------------------------------------
(* Properties of the wizard *)

PlaceOps == {"handlePlaceMonument"}
GenerateOps == {"handleGenerateMonument", "handleGenerateMonumentFromImage"}

\* C1: in every reachable state, a step of PLACE_IN_SCENE or SHARE implies
\* that generatedMonument is non-null, and the step SHARE implies that
\* finalImage is non-null.
WizardInvariant ==
    /\ step \in {"PLACE_IN_SCENE", "SHARE"} => generatedMonument # null
    /\ step = "SHARE" => finalImage # null

\* C2: a response is applied only in the step that issued it: a placement
\* that completes when the wizard has left PLACE_IN_SCENE leaves step and
\* finalImage unchanged, and a monument generation that completes when the
\* wizard has left CREATE_MONUMENT leaves generatedMonument unchanged.
LateResponseDiscarded ==
    [][ /\ (/\ step # "PLACE_IN_SCENE"
            /\ Outstanding(PlaceOps)' < Outstanding(PlaceOps))
           => (step' = step /\ finalImage' = finalImage)
        /\ (/\ step # "CREATE_MONUMENT"
            /\ Outstanding(GenerateOps)' < Outstanding(GenerateOps))
           => generatedMonument' = generatedMonument ]_vars

\* the inputs C3 lists as invalid for a placement
PlaceInputsInvalid ==
    \/ generatedMonument = null
    \/ (sceneSource = "upload" /\ sceneFile = null)
    \/ (sceneSource = "prompt" /\ scenePrompt = Empty)
    \/ editPrompt = Empty

\* C3: handlePlaceMonument called with an invalid input issues no call and
\* ends with an error set, isLoading not set, step and finalImage unchanged.
InvalidPlaceIsRejected ==
    [][ (CallPlaceMonument /\ PlaceInputsInvalid)
        => /\ inflight' = inflight
           /\ error' # null
           /\ isLoading' = isLoading /\ ~isLoading'
           /\ step' = step
           /\ finalImage' = finalImage ]_vars

\* C3's case: the handler has rejected a call for its inputs
InvalidPlaceWasRejected ==
    /\ PlaceInputsInvalid
    /\ error # null
    /\ inflight = EmptyBag
    /\ ~isLoading

DescribeOps == {"handleSceneUpload"}

\* the Place Monument button is on screen and can be clicked
PlaceControlEnabled == AppShown /\ step = "PLACE_IN_SCENE" /\ PlaceEnabled

\* C4: in every reachable state where at least one scene description call
\* is outstanding, the placement control is disabled.
DescribeDisablesPlacement == Outstanding(DescribeOps) > 0 => ~PlaceControlEnabled

\* C5: at most one of the main generation actions (generateMonument,
\* generateMonumentFromImage, placeMonument) is in flight at any time.
OneMainActionInFlight == Outstanding(MainOps) <= 1

\* C5's case: a placement is still outstanding after the user went back to
\* step 1, where only isLoading keeps the Generate Monument button disabled
BusyAcrossNavigation ==
    /\ step = "CREATE_MONUMENT"
    /\ Outstanding(PlaceOps) = 1
    /\ monumentSource = "prompt" /\ monumentPrompt # Empty
    /\ isLoading

\* C6: immediately after changeMonumentSource(s), for either s and from any
\* prior state, generatedMonument and monumentFile are null, monumentSource
\* is s, error is null and monumentPrompt is the default text of mode s.
ModeSwitchResets ==
    [][ \A s \in {"prompt", "upload"} :
          changeMonumentSource(s)
          => /\ generatedMonument' = null
             /\ monumentFile' = null
             /\ monumentSource' = s
             /\ error' = null
             /\ monumentPrompt' =
                    IF s = "prompt"
                    THEN <<"A majestic crystal obelisk monument, futuristic, glowing">>
                    ELSE <<"A grand, majestic monument made of polished bronze.">> ]_vars

\* C6's case: the mode was switched to 'upload' after a monument had been
\* generated and sent for placement: the monument is gone, the prompt is
\* the upload default
SwitchedAfterGenerating ==
    /\ monumentSource = "upload"
    /\ generatedMonument = null /\ monumentFile = null /\ error = null
    /\ monumentPrompt = DefaultUploadMonumentPrompt
    /\ Outstanding(PlaceOps) = 1

\* the mode under which the generation that produced monument `m` was
\* submitted: only the 'upload' mode sends an image with its request
SubmittedUnder(m) ==
    LET by == atob(SplitComma(m)[2]).by
    IN  IF \E i \in DOMAIN by : by[i] = "image" THEN "upload" ELSE "prompt"

\* C7: no stale cross-mode monument is held: whenever generatedMonument is
\* non-null it was produced by a generation submitted under the currently
\* selected monumentSource (so a response arriving after a mode switch
\* does not populate generatedMonument).
NoCrossModeMonument ==
    generatedMonument # null => SubmittedUnder(generatedMonument) = monumentSource

\* the responses with no inline image part at all
NoImageOutcomes ==
    { o \in ImageOutcomes :
        /\ o.kind = "response"
        /\ \A c \in DOMAIN o.shape : \A p \in DOMAIN o.shape[c] :
              "mime" \notin DOMAIN o.shape[c][p] }

\* C8: when a generation's response has no inline image part, then after
\* the action completes the generated image is the one shown before the
\* submission, the inputs are untouched, isLoading is false and error is
\* non-null.
EmptyResponseRestoresState ==
    [][ \A r \in Suspended({"handleGenerate"}), o \in NoImageOutcomes :
          GenerateSettlesWith(r, o)
          => /\ generatedImage' = r.shown
             /\ prompt' = prompt /\ uploadedImage' = uploadedImage
             /\ ~isLoading'
             /\ error' # null ]_vars

\* the ways the description call itself fails
FailedCallOutcomes == { o \in TextCallOutcomes : o.kind \in {"raise", "fetchfail"} }

\* C9: when the description call of a scene upload fails, editPrompt ends
\* as 'Add the monument to the scene, making it look natural', error is
\* non-null, isGeneratingPrompt is false and, given a generated monument
\* and the uploaded scene file, placement can be submitted without any
\* further step.
DescribeFailureKeepsPlacing ==
    [][ \A r \in Suspended(DescribeOps), o \in FailedCallOutcomes :
          SceneUploadSettlesWith(r, o)
          => /\ editPrompt' = <<"Add the monument to the scene, making it look natural">>
             /\ error' # null
             /\ ~isGeneratingPrompt'
             /\ (generatedMonument' # null /\ sceneFile' # null)
                => PlaceControlEnabled' ]_vars

\* C9 as the code has it: the fallback text, the error and the cleared
\* flag always; placement can be submitted at once if the wizard is still
\* shown (the key was not rejected by this failure), it is at
\* PLACE_IN_SCENE and no generation is running.
DescribeFailureFallsBack ==
    [][ \A r \in Suspended(DescribeOps), o \in FailedCallOutcomes :
          SceneUploadSettlesWith(r, o)
          => /\ editPrompt' = <<"Add the monument to the scene, making it look natural">>
             /\ error' # null
             /\ ~isGeneratingPrompt'
             /\ (/\ generatedMonument' # null /\ sceneFile' # null
                 /\ AppShown' /\ step' = "PLACE_IN_SCENE" /\ ~isLoading')
                => PlaceControlEnabled' ]_vars

\* C9's case: a description has failed and the Place Monument button is
\* enabled with the fallback text
PlacingAfterDescribeFailure ==
    /\ editPrompt = FallbackEditPrompt
    /\ error # null
    /\ sceneFile # null
    /\ PlaceControlEnabled

\* the call answered with a response whose first candidate holds an image
HasImage(o) ==
    /\ o.kind = "response"
    /\ Len(o.shape) > 0
    /\ \E p \in DOMAIN o.shape[1] : "mime" \in DOMAIN o.shape[1][p]

\* C10: a placement with sceneSource = 'prompt' issues exactly two endpoint
\* calls in order, a text-only scene generation with the scene prompt, then
\* a call with the parts [scene image of call 1, monument image, composed
\* instruction]; the final image stored is the image of the second call,
\* never that of the first.
PromptPlacementTwoCalls ==
    [][ \A r \in Suspended(PlaceOps), o \in ImageOutcomes :
          (r.sceneSource = "prompt" /\ HasImage(o) /\ PlaceCompositeSettlesWith(r, o))
          => LET calls == PromptPlaceCalls(r, o)
             IN  /\ Len(calls) = 2
                 /\ calls[1].parts = <<TextPart(r.scenePrompt)>>
                 /\ Len(calls[2].parts) = 3
                 /\ IsInline(calls[2].parts[1])
                 /\ atob(calls[2].parts[1].inlineData.data).by = KindOf(calls[1])
                 /\ IsInline(calls[2].parts[2])
                 /\ calls[2].parts[2].inlineData.data = SplitComma(r.generatedMonument)[2]
                 /\ calls[2].parts[3] = TextPart(FinalEditPrompt(r.editPrompt))
                 /\ finalImage' # null
                 /\ atob(SplitComma(finalImage')[2]).by = KindOf(calls[2])
                 /\ KindOf(calls[2]) # KindOf(calls[1]) ]_vars

\* C10's case: a placement from a scene prompt has produced the final image
PlacedFromPrompt ==
    /\ sceneSource = "prompt"
    /\ step = "SHARE"
    /\ finalImage # null
    /\ inflight = EmptyBag

\* C11: after Start Over in SHARE the step is CREATE_MONUMENT and every
\* workflow field has its initial value: monumentSource, monumentPrompt,
\* monumentFile, generatedMonument, sceneSource, scenePrompt, sceneFile,
\* editPrompt, finalImage and error.
StartOverRestoresInitialValues ==
    [][ StartOver
        => /\ step' = "CREATE_MONUMENT"
           /\ monumentSource' = "prompt"
           /\ monumentPrompt' = <<"A majestic crystal obelisk monument, futuristic, glowing">>
           /\ monumentFile' = null
           /\ generatedMonument' = null
           /\ sceneSource' = "upload"
           /\ scenePrompt' = <<"A beautiful sunny park with green grass and trees, photorealistic.">>
           /\ sceneFile' = null
           /\ editPrompt' = <<"Add the monument to the center of the park, making it look natural">>
           /\ finalImage' = null
           /\ error' = null ]_vars

\* the Next: Place in Scene button is on screen and can be clicked
NextControlEnabled == AppShown /\ step = "CREATE_MONUMENT" /\ NextEnabled

\* the data URL of the image a response of shape o.shape to `call` carries:
\* its first candidate's first image part
ImageUrlOf(call, o) ==
    LET parts == o.shape[1]
        p == CHOOSE i \in DOMAIN parts :
                 /\ "mime" \in DOMAIN parts[i]
                 /\ \A j \in 1..(i - 1) : "mime" \notin DOMAIN parts[j]
    IN  DataUrl(parts[p].mime, btoa(GeneratedBytes(call, parts[p].n)))

\* C12: when the call of a generation from a (non-empty) prompt returns an
\* image part, then after completion generatedMonument is the data URL of
\* that image, isLoading is false, error is null, step is still
\* CREATE_MONUMENT and the Next control is enabled.
GeneratedMonumentIsStored ==
    [][ \A r \in Suspended({"handleGenerateMonument"}), o \in ImageCallOutcomes :
          (HasImage(o) /\ GenerateMonumentSettlesWith(r, o))
          => /\ r.prompt # Empty
             /\ generatedMonument' = ImageUrlOf(MonumentCall(r), o)
             /\ ~isLoading'
             /\ error' = null
             /\ step' = "CREATE_MONUMENT"
             /\ NextControlEnabled' ]_vars

\* C13: a placement is all-or-nothing.  When its composite call returns an
\* image, finalImage becomes that image and step becomes SHARE in the same
\* update; when a call of it fails (the transport fails, the response has
\* no image, the scene generation fails), step, finalImage,
\* generatedMonument, sceneFile and editPrompt are unchanged, error is set
\* and isLoading is cleared.
PlacementAllOrNothing ==
    [][ \A r \in Suspended(PlaceOps), o \in ImageCallOutcomes :
          /\ (HasImage(o) /\ PlaceCompositeSettlesWith(r, o))
             => /\ finalImage' = ImageUrlOf(CompositeCall(r, o), o)
                /\ step' = "SHARE"
          /\ (~HasImage(o) /\ (PlaceSceneSettlesWith(r, o) \/ PlaceCompositeSettlesWith(r, o)))
             => /\ step' = step
                /\ finalImage' = finalImage
                /\ generatedMonument' = generatedMonument
                /\ sceneFile' = sceneFile
                /\ editPrompt' = editPrompt
                /\ error' # null
                /\ ~isLoading' ]_vars

\* C13's case: a placement whose inputs passed the check has failed and
\* the wizard is where it was
PlacementFailedInPlace ==
    /\ PlaceInputError = null
    /\ step = "PLACE_IN_SCENE"
    /\ finalImage = null
    /\ error # null
    /\ ~isLoading
    /\ inflight = EmptyBag

\* the submissions that call the endpoint
CallingOps == MainOps \cup DescribeOps

\* what the suspension of handler `r` may end with
OutcomesOf(r) ==
    IF r.op = "handleSceneUpload" THEN TextCallOutcomes \cup {ReadFailed}
    ELSE IF r.op = "handleGenerateMonument" THEN ImageCallOutcomes
    ELSE IF r.op = "handleGenerateMonumentFromImage" THEN ImageCallOutcomes \cup {ReadFailed}
    ELSE IF r.pc = "scene" \/ r.sceneSource = "prompt" THEN ImageCallOutcomes
    ELSE ImageCallOutcomes \cup {ReadFailed}

\* handler `r` resumes with `o`
SettlesWith(r, o) ==
    IF r.op = "handleSceneUpload" THEN SceneUploadSettlesWith(r, o)
    ELSE IF r.op = "handleGenerateMonument" THEN GenerateMonumentSettlesWith(r, o)
    ELSE IF r.op = "handleGenerateMonumentFromImage" THEN GenerateFromImageSettlesWith(r, o)
    ELSE PlaceSceneSettlesWith(r, o) \/ PlaceCompositeSettlesWith(r, o)

\* a placement whose scene has arrived goes on to its composite call
GoesOn(r, o) ==
    r.op = "handlePlaceMonument" /\ r.pc = "scene" /\ HasImage(o)

\* The endpoint calls made for submission `r` when it settles with `o`,
\* in order.  None is made when the file cannot be read; a POST that fails
\* has not brought back what the proxy did, which is then counted as far
\* as the scene that did arrive.
EndpointCalls(r, o) ==
    LET sceneDone == r.op = "handlePlaceMonument" /\ r.pc = "composite"
                        /\ r.sceneSource = "prompt"
    IN  IF o = ReadFailed THEN << >>
        ELSE IF variant = "server"
        THEN IF o.kind = "fetchfail"
             THEN IF sceneDone THEN <<ImageRequest(<<TextPart(r.scenePrompt)>>)>> ELSE << >>
             ELSE IF r.op = "handleSceneUpload"
             THEN handler(Post(DescribeBody(r.file)), <<o>>).calls
             ELSE IF r.op = "handleGenerateMonument"
             THEN handler(Post(MonumentBody(r)), <<o>>).calls
             ELSE IF r.op = "handleGenerateMonumentFromImage"
             THEN handler(Post(MonumentFromImageBody(r)), <<o>>).calls
             ELSE IF GoesOn(r, o) THEN <<ImageRequest(<<TextPart(r.scenePrompt)>>)>>
             ELSE handler(Post(PlaceBody(r)), IF sceneDone THEN <<r.scene, o>> ELSE <<o>>).calls
        ELSE IF r.op = "handleSceneUpload" THEN <<DescribeCall(r.file)>>
        ELSE IF r.op = "handleGenerateMonument" THEN <<MonumentCall(r)>>
        ELSE IF r.op = "handleGenerateMonumentFromImage" THEN <<MonumentFromImageCall(r)>>
        ELSE IF r.pc = "scene" THEN <<ClientSceneCall(r)>>
        ELSE IF sceneDone THEN <<ClientSceneCall(r), ClientFinalCall(r)>>
        ELSE <<ClientFinalCall(r)>>

\* a user submission: a handler that reaches a call is started
Submission ==
    \/ ClickGenerateMonument \/ ClickGenerateFromImage \/ UploadScene \/ ClickPlace
    \/ ClickGenerate \/ PressEnter

\* the one-page handleGenerate ends when its call settles
PageAttemptEnds ==
    \A r \in Suspended({"handleGenerate"}) : \A o \in ImageOutcomes \cup {ReadFailed} :
        GenerateSettlesWith(r, o) => inflight' = Resume(r)

\* a placement calls for the scene, with the scene prompt alone, and then
\* for the composite, with the two images
SceneThenComposite(calls) ==
    Len(calls) = 2
    => /\ Len(calls[1].parts) = 1 /\ ~IsInline(calls[1].parts[1])
       /\ Len(calls[2].parts) = 3 /\ IsInline(calls[2].parts[1])

\* C14: each accepted submission makes a single attempt: a monument
\* generation (from a prompt or from an image) and a scene description
\* call the endpoint exactly once, a placement at most twice (scene then
\* composite), and after a failure no further call is issued until the
\* user submits again.
SingleAttemptExactlyOnce ==
    [][ /\ \A r \in Suspended(CallingOps) : \A o \in OutcomesOf(r) :
              SettlesWith(r, o)
              => IF GoesOn(r, o)
                 THEN \E r2 \in DOMAIN inflight' :
                         /\ r2.op = r.op /\ r2.pc = "composite"
                         /\ inflight' = Replace(r, r2)
                 ELSE /\ inflight' = Resume(r)
                      /\ IF r.op = "handlePlaceMonument"
                         THEN /\ Len(EndpointCalls(r, o)) <= 2
                              /\ SceneThenComposite(EndpointCalls(r, o))
                         ELSE o # FetchFailed => Len(EndpointCalls(r, o)) = 1
        /\ PageAttemptEnds
        /\ Outstanding(CallingOps \cup {"handleGenerate"})'
              > Outstanding(CallingOps \cup {"handleGenerate"}) => Submission ]_vars

\* the call was made and the endpoint answered it or raised
Answered(o) == o # ReadFailed /\ o.kind # "fetchfail"

\* C14 as the code has it: a generation and a description call the
\* endpoint at most once, exactly once when the call is answered and not
\* at all when the file cannot be read before it; the rest as above.
SingleAttempt ==
    [][ /\ \A r \in Suspended(CallingOps) : \A o \in OutcomesOf(r) :
              SettlesWith(r, o)
              => IF GoesOn(r, o)
                 THEN \E r2 \in DOMAIN inflight' :
                         /\ r2.op = r.op /\ r2.pc = "composite"
                         /\ inflight' = Replace(r, r2)
                 ELSE /\ inflight' = Resume(r)
                      /\ IF r.op = "handlePlaceMonument"
                         THEN /\ Len(EndpointCalls(r, o)) <= 2
                              /\ SceneThenComposite(EndpointCalls(r, o))
                         ELSE /\ Len(EndpointCalls(r, o)) <= 1
                              /\ Answered(o) => Len(EndpointCalls(r, o)) = 1
                              /\ o = ReadFailed => Len(EndpointCalls(r, o)) = 0
        /\ PageAttemptEnds
        /\ Outstanding(CallingOps \cup {"handleGenerate"})'
              > Outstanding(CallingOps \cup {"handleGenerate"}) => Submission ]_vars

\* C14's case: a generation has failed, nothing is outstanding and the
\* button is there to submit again
FailedAndIdle ==
    /\ variant \in {"server", "client"}
    /\ step = "CREATE_MONUMENT"
    /\ generatedMonument = null
    /\ error # null
    /\ monumentPrompt # Empty
    /\ ~isLoading
    /\ inflight = EmptyBag

\* the handler has ended at its input check: a message is shown, the busy
\* flag is not set and no handler is left waiting for a call
RejectedBeforeCall ==
    /\ error' # null
    /\ isLoading' = isLoading
    /\ inflight' = inflight

\* C15: inputs are checked before any call: handleGenerateMonument with an
\* empty prompt, handleGenerateMonumentFromImage with no file or an empty
\* style prompt, and the one-page handleGenerate with neither a prompt nor
\* an image end with an error message, do not set the busy flag and make
\* no call.
InvalidInputsMakeNoCall ==
    [][ /\ (CallGenerateMonument /\ monumentPrompt = Empty) => RejectedBeforeCall
        /\ (CallGenerateFromImage /\ (monumentFile = null \/ monumentPrompt = Empty))
           => RejectedBeforeCall
        /\ (CallGenerate /\ prompt = Empty /\ uploadedImage = null)
           => RejectedBeforeCall ]_vars

\* C15's case: a generation from an image was asked for with a file and no
\* style prompt, and was refused
StylePromptWasMissing ==
    /\ variant \in {"server", "client"}
    /\ monumentFile # null /\ monumentPrompt = Empty
    /\ error \in { Str(<<"Please upload an image and provide a style prompt.">>),
                   Str(<<"Please enter a prompt to guide the monument generation.">>) }
    /\ ~isLoading
    /\ inflight = EmptyBag

\* the calls that raise
RaiseOutcomes == { o \in ImageOutcomes : o.kind = "raise" }

\* what the generation client of the page returns or throws for the
\* submission `r` when its call ends with `o`: generateMonumentImage
\* (App.tsx:44-47) or generateMonument (part_004:52-53)
ClientResult(r, o) ==
    IF variant = "generateMonumentImage"
    THEN generateMonumentImage(
             r.prompt,
             IF r.image = null THEN null
             ELSE [base64 |-> fileToBase64(r.image.file), mimeType |-> r.image.file.type],
             o)
    ELSE generateMonument(
             r.prompt,
             IF r.image = null THEN null
             ELSE [data |-> r.image.base64, mimeType |-> r.image.mimeType],
             o)

\* C16: the generation client reports two failures that a caller can tell
\* apart: what it gives for a response with no inline image part differs
\* from what it gives for a call that raises.
EmptyAndTransportFailuresDiffer ==
    \A r \in Suspended({"handleGenerate"}) :
        \A o1 \in NoImageOutcomes, o2 \in RaiseOutcomes :
            ClientResult(r, o1) # ClientResult(r, o2)

\* the image part a response of `shape` should yield: the first image part,
\* in list order, of the first candidate; null if there is none
FirstImageIn(shape) ==
    IF Len(shape) = 0 \/ ~(\E i \in DOMAIN shape[1] : "mime" \in DOMAIN shape[1][i])
    THEN null
    ELSE LET parts == shape[1]
         IN  parts[CHOOSE i \in DOMAIN parts :
                       /\ "mime" \in DOMAIN parts[i]
                       /\ \A j \in 1..(i - 1) : "mime" \notin DOMAIN parts[j]]

\* base64 data `data` is the image `want` of the response
IsImage(data, want) == atob(data).n = want.n

PageCall(r) ==
    IF variant = "generateMonumentImage"
    THEN ImageRequest(generateMonumentImageParts(
             r.prompt,
             IF r.image = null THEN null
             ELSE [base64 |-> fileToBase64(r.image.file), mimeType |-> r.image.file.type]))
    ELSE ImageRequest(generateMonumentParts(
             r.prompt,
             IF r.image = null THEN null
             ELSE [data |-> r.image.base64, mimeType |-> r.image.mimeType]))

\* zero, one or two inline-image parts, then one text part, the last
ImagesThenText(request) ==
    LET n == Len(request.parts)
    IN  /\ n \in 1..3
        /\ ~IsInline(request.parts[n])
        /\ \A i \in 1..(n - 1) : IsInline(request.parts[i])

\* in a composite request the first image is the scene of placement `r`
\* (the uploaded file, or what the scene call returned) and the second is
\* the monument
SceneThenMonument(r, request) ==
    Len(request.parts) = 3
    => /\ IF r.sceneSource = "upload"
          THEN request.parts[1].inlineData.data = btoa(r.sceneFile.bytes)
          ELSE atob(request.parts[1].inlineData.data).by = <<Head(r.scenePrompt)>>
       /\ request.parts[2].inlineData.data = SplitComma(r.generatedMonument)[2]

\* C18: every request sent to the generation endpoint has zero, one or two
\* inline-image parts followed by exactly one text part, the last; a
\* placement sends the scene first and the monument second.
RequestsAreImagesThenText ==
    /\ \A r \in Suspended(CallingOps) : \A o \in OutcomesOf(r) :
          \A c \in DOMAIN EndpointCalls(r, o) :
              /\ ImagesThenText(EndpointCalls(r, o)[c])
              /\ r.op = "handlePlaceMonument" => SceneThenMonument(r, EndpointCalls(r, o)[c])
    /\ \A r \in Suspended({"handleGenerate"}) : ImagesThenText(PageCall(r))

\* C18's case: a composite request with its two images is outstanding and
\* so is a one-image request
TwoImageRequestOutstanding ==
    \E r \in Suspended(PlaceOps), o \in ImageOutcomes :
        /\ r.pc = "composite"
        /\ o.kind = "response"
        /\ \E c \in DOMAIN EndpointCalls(r, o) : Len(EndpointCalls(r, o)[c].parts) = 3

\* every call request `req` leads to was answered with what the handler
\* is after: an image in the first candidate, or a text for a description
Extracted(req, outcomes) ==
    /\ req.method = "POST" /\ req.body.type \in KnownTypes
    /\ Len(outcomes) = CallsAwaited(req)
    /\ \A i \in DOMAIN outcomes :
          IF req.body.type = "describeScene" THEN outcomes[i].kind = "text"
          ELSE HasImage(outcomes[i])

\* the field of a 200 body for each type of request
ResultField(type) ==
    IF type = "describeScene" THEN "description"
    ELSE IF type = "placeMonument" THEN "finalImageUrl"
    ELSE "imageUrl"

\* C19: the /api/generate handler sends exactly one response per request:
\* status 200 with imageUrl, finalImageUrl or description if and only if
\* that result was extracted; otherwise a non-2xx status with an error
\* field: 405 for a method other than POST, 400 for an unrecognised type,
\* 500 when an endpoint call raises or returns no image.
HandlerSendsOneResponse ==
    (variant = "proxy" /\ sent # null)
    => IF inflight # EmptyBag THEN sent.responses = << >>
       ELSE /\ Len(sent.responses) = 1
            /\ LET req == sent.req
                   res == sent.responses[1]
               IN  /\ res.status = 200 <=> Extracted(req, sent.outcomes)
                   /\ res.status = 200
                      => DOMAIN res.body = {ResultField(req.body.type)}
                   /\ res.status # 200
                      => /\ res.status \notin 200..299
                         /\ DOMAIN res.body = {"error"} /\ res.body.error # Empty
                         /\ res.status =
                              IF req.method # "POST" THEN 405
                              ELSE IF req.body.type \notin KnownTypes THEN 400
                              ELSE 500

\* C19's case: a placement request whose scene was generated has been
\* answered with the final image
PlacementAnswered ==
    /\ variant = "proxy" /\ sent # null /\ inflight = EmptyBag
    /\ sent.req.body.type = "placeMonument"
    /\ Len(sent.outcomes) = 2
    /\ sent.responses[1].status = 200
    /\ "finalImageUrl" \in DOMAIN sent.responses[1].body


\* the outcomes of a call that handleError takes for a rejected key
InvalidKeyOutcomes ==
    { o \in [kind : {"raise"}, message : RaiseMessages] :
          handleError(Throw(o.message)).keyRejected }

\* this step starts an image call: a generation handler is suspended at a
\* call it was not suspended at before
GenerationCallIssued ==
    \E r \in DOMAIN inflight' :
        /\ r.op \in MainOps
        /\ inflight'[r] > (IF r \in DOMAIN inflight THEN inflight[r] ELSE 0)

\* C20: in the client-key variant, a call that fails with an
\* invalid-credential message sets apiKeyConfirmed to false and leaves step,
\* generatedMonument and finalImage as they were, and no generation call is
\* issued while the key is unconfirmed, that is until the user confirms a
\* non-blank key again.
InvalidKeyReturnsToKeyScreen ==
    [][ variant = "client"
        => /\ \A r \in Suspended(CallingOps), o \in InvalidKeyOutcomes :
                  SettlesWith(r, o)
                  => /\ ~apiKeyConfirmed'
                     /\ UNCHANGED << step, generatedMonument, finalImage >>
           /\ ~apiKeyConfirmed => ~GenerationCallIssued ]_vars

----------------------------------------------------------------------------
(* Progress *)

\* The submissions where every suspended handler is resumed in the end:
\* each endpoint call is answered or raises, and each file read ends, well
\* or not.
SpecSubmissionsFair ==
    /\ SpecSubmissions
    /\ WF_vars(GenerateMonumentSettles)
    /\ WF_vars(GenerateFromImageSettles)
    /\ WF_vars(SceneUploadSettles)
    /\ WF_vars(PlaceSceneSettles)
    /\ WF_vars(PlaceCompositeSettles)
    /\ WF_vars(GenerateSettles)
    /\ WF_vars(ImageUploadSettles)

\* C21: no failure is fatal: when every endpoint call and every file read
\* ends, with success or with failure, a busy flag that a submission has
\* set (isLoading, isGeneratingPrompt) is cleared in the end, also when
\* the read of the uploaded file fails.
BusyFlagsEventuallyClear ==
    /\ isLoading ~> ~isLoading
    /\ isGeneratingPrompt ~> ~isGeneratingPrompt

----------------------------------------------------------------------------
(* The scene modes *)

\* C22: while sceneSource = 'prompt' no auto-description writes the
\* placement instruction: a describeScene handler that ends, with a
\* description or with a failure, after the user switched the scene mode to
\* 'prompt' leaves editPrompt as it was.
NoDescriptionInPromptMode ==
    [][ (sceneSource = "prompt" /\ Outstanding(DescribeOps)' < Outstanding(DescribeOps))
        => editPrompt' = editPrompt ]_vars

----------------------------------------------------------------------------
(* Images and their labels *)

\* The submissions with the step from monument to scene between them, so
\* that the monument placed is the one a response of any shape gave.
NextImages ==
    \/ NextSubmissions
    \/ ClickNext

SpecImages == InitSubmissions /\ [][NextImages]_vars

\* the monument part of the composite request of placement `r`
MonumentPartOf(r, o) == CompositeCall(r, o).parts[2]

\* the placement request labels the monument as the endpoint did
MonumentPartLabelled ==
    \A r \in Suspended(PlaceOps), o \in ImageOutcomes :
        r.pc = "composite"
        => MonumentPartOf(r, o).inlineData.mimeType = r.generatedMonument.mime

\* the data URL a wizard generation keeps is labelled as the endpoint
\* labelled the image
MonumentUrlLabelled ==
    \A r \in Suspended(GenerateOps), o \in ImageOutcomes :
        HasImage(o)
        => LET got == IF r.op = "handleGenerateMonument"
                      THEN GenerateResult(MonumentCall(r), MonumentBody(r), o, Empty)
                      ELSE GenerateResult(MonumentFromImageCall(r),
                                          MonumentFromImageBody(r), o, Empty)
           IN  got.tag = "return" /\ got.value.mime = FirstImageIn(o.shape).mime

\* the data URL a one-page generator shows is labelled as the endpoint
\* labelled the image
PageUrlLabelled ==
    \A r \in Suspended({"handleGenerate"}), o \in ImageOutcomes :
        HasImage(o)
        => LET got == GenerateOutcome(r, o)
           IN  got.tag = "return" /\ got.value.mime = FirstImageIn(o.shape).mime

\* C23: the MIME type attached to an image is that of the image it labels:
\* the monument part of a placement request carries the MIME type the
\* endpoint returned for the generated monument, and a generated image kept
\* as a data URL carries the MIME type returned with it.
ImageLabelsMatch ==
    /\ MonumentPartLabelled
    /\ MonumentUrlLabelled
    /\ PageUrlLabelled

----------------------------------------------------------------------------
(* Encoding a file and showing it again, on the text of the data URL.
   A text is a sequence of tokens; the comma is a token of its own. *)

\* the base64 text of a file's bytes: letters, digits, '+', '/' and '='
Base64Text(bytes) == <<"base64(", bytes, ")">>

\* reader.result after readAsDataURL(file): data:<type>;base64,<body>
readAsDataURLText(file) ==
    <<"data:", file.type, ";base64", ",">> \o Base64Text(file.bytes)

\* String.prototype.split(sep): the texts between the separators
RECURSIVE split(_, _)
split(s, sep) ==
    IF ~Includes(s, sep) THEN <<s>>
    ELSE LET i == CHOOSE k \in 1..Len(s) : s[k] = sep /\ \A j \in 1..(k - 1) : s[j] # sep
         IN  <<SubSeq(s, 1, i - 1)>> \o split(SubSeq(s, i + 1, Len(s)), sep)

\* the encoding that keeps the whole of reader.result
fileToImagePayloadUnsplit(file) ==
    [base64 |-> readAsDataURLText(file), mimeType |-> file.type]

\* unnamed/part_001:3-20 (and part_004:21-34, App.tsx:168-175 with
\* file.type beside it), when the read succeeds
fileToImagePayload(file) ==
    LET result == readAsDataURLText(file)
        base64 == split(result, ",")[2]
    IN  [base64 |-> base64, mimeType |-> file.type]

\* unnamed/part_003:63: `data:${mimeType};base64,${base64}`
imageUrl(payload) == <<"data:", payload.mimeType, ";base64", ",">> \o payload.base64

\* the type and the body a data URL text names
MimeOfText(url) == url[2]
BodyOfText(url) == SubSeq(url, 5, Len(url))

\* the image files a user may give
ImageFiles == MonumentFiles \cup SceneFiles

\* the file of that name
FileNamed(name) == CHOOSE f \in ImageFiles : f.name = name

\* C24: for every image file, encoding it (read as data URL, strip the
\* prefix up to the first comma, pair with the file's declared type) and
\* then formatting the payload as data:<mime>;base64,<data> gives a text
\* whose MIME type and base64 body are the originals; so the upload a
\* page keeps shows as the data URL of the file it was read from.
EncodeRoundTrip ==
    /\ \A file \in ImageFiles :
          LET url == imageUrl(fileToImagePayload(file))
          IN  /\ url = readAsDataURLText(file)
              /\ MimeOfText(url) = file.type
              /\ BodyOfText(url) = Base64Text(file.bytes)
    /\ (uploadedImage # null /\ "base64" \in DOMAIN uploadedImage)
       => DataUrl(uploadedImage.mimeType, uploadedImage.base64)
              = readAsDataURL(FileNamed(uploadedImage.name))

\* C24's case: a page holds the payload of a file it has read
UploadEncoded ==
    /\ uploadedImage # null /\ "base64" \in DOMAIN uploadedImage
    /\ uploadedImage.base64 = btoa(FileNamed(uploadedImage.name).bytes)

----------------------------------------------------------------------------
(* The error shown *)

InvalidKeyMessage ==
    <<"Your API key appears to be invalid. Please enter a valid key to continue.">>

\* the quota message, as either wizard words it
QuotaMessages ==
    { <<"You've exceeded your API ", "quota", ". Please check your billing details or use a different key.">>,
      <<"You've exceeded your API ", "quota", ". Please check your billing details or redeploy with a new key.">> }

HasInvalidKeyText(message) ==
    \/ Includes(message, "API key not valid")
    \/ Includes(message, "API key is invalid")
    \/ Includes(message, "permission denied")

\* the message shown for a failure whose message is `message`
ShownFor(message, shown) ==
    IF HasInvalidKeyText(message) THEN shown = Str(InvalidKeyMessage)
    ELSE IF Includes(message, "quota") THEN shown \in { Str(m) : m \in QuotaMessages }
    ELSE shown = Str(message)

\* C25: a failure of an endpoint call is classified by its message where
\* the wizard catches it: invalid-credential text gives the invalid-key
\* message, otherwise 'quota' gives the quota message, otherwise the
\* message itself is shown; a quota failure raised by the endpoint gives
\* the quota message in the client-key and in the server-proxied variant.
FailuresClassified ==
    [][ \A r \in Suspended(CallingOps), o \in RaiseOutcomes :
          SettlesWith(r, o) => ShownFor(o.message, error') ]_vars

\* C25 as the code has it: the client-key wizard classifies as stated; the
\* server-proxied wizard has no invalid-credential class, it shows its
\* quota message for a message with 'quota' and otherwise the message
\* itself, the endpoint's invalid-key message included.
FailuresClassifiedByVariant ==
    [][ \A r \in Suspended(CallingOps), o \in RaiseOutcomes :
          SettlesWith(r, o)
          => IF variant = "client" /\ HasInvalidKeyText(o.message)
             THEN error' = Str(InvalidKeyMessage)
             ELSE IF Includes(o.message, "quota")
             THEN error' = Str(<<"You've exceeded your API ", "quota",
                                 IF variant = "client"
                                 THEN ". Please check your billing details or use a different key."
                                 ELSE ". Please check your billing details or redeploy with a new key.">>)
             ELSE error' = Str(o.message) ]_vars

\* C25's case: the server-proxied wizard shows the endpoint's own
\* invalid-key message, after the call of a handler failed with it
InvalidKeyShownRaw ==
    /\ variant = "server"
    /\ error # null /\ HasInvalidKeyText(error.text)
    /\ inflight = EmptyBag /\ ~isLoading /\ ~isGeneratingPrompt

----------------------------------------------------------------------------
(* Scenes uploaded one after the other: either wizard at PLACE_IN_SCENE
   with a monument, where the user has two scene files to choose from. *)

TwoSceneFiles == SceneFiles \cup { File("beach.jpg", "image/jpeg", "beach-bytes") }

InitScenes ==
    /\ variant \in {"server", "client"}
    /\ responses = WizardResponseShapes
    /\ apiKey = IF variant = "client" THEN <<"AIza-user-key">> ELSE Empty
    /\ apiKeyConfirmed = (variant = "client")
    /\ step = "PLACE_IN_SCENE"
    /\ monumentSource = "prompt"
    /\ monumentPrompt = DefaultMonumentPrompt
    /\ monumentFile = null
    /\ generatedMonument = SomeMonument
    /\ sceneSource = "upload"
    /\ scenePrompt = DefaultScenePrompt
    /\ sceneFile = null
    /\ editPrompt = InitialEditPrompt
    /\ finalImage = null
    /\ isLoading = FALSE
    /\ isGeneratingPrompt = FALSE
    /\ error = null
    /\ prompt = Empty
    /\ uploadedImage = null
    /\ generatedImage = null
    /\ sent = null
    /\ inflight = EmptyBag

\* the scene uploader, App.tsx:502; ImageUploader.tsx:14-38
UploadOneOfTwoScenes ==
    /\ AppShown /\ step = "PLACE_IN_SCENE" /\ sceneSource = "upload"
    /\ Outstanding({"handleSceneUpload"}) < MaxDescribe
    /\ \E file \in TwoSceneFiles : handleSceneUpload(file)

NextScenes ==
    \/ UploadOneOfTwoScenes
    \/ SceneUploadSettles
    \/ ClickSceneTab
    \/ setEditPrompt

SpecScenes == InitScenes /\ [][NextScenes]_vars

\* the placement instruction derived from the description of `file`
DescribedFrom(file) ==
    DescribedEditPrompt(Trim(DescriptionOf(fileToGenerativePart(file).inlineData)))

\* C26: once no describeScene call is in flight and sceneSource = 'upload'
\* with a scene file selected, an editPrompt derived from a description
\* describes the selected sceneFile: after two uploads in succession,
\* whose responses arrive in either order, editPrompt does not hold the
\* description of the superseded file.
DescriptionIsOfSelectedScene ==
    (/\ Outstanding(DescribeOps) = 0
     /\ sceneSource = "upload" /\ sceneFile # null
     /\ \E f \in TwoSceneFiles : editPrompt = DescribedFrom(f))
    => editPrompt = DescribedFrom(sceneFile)

----------------------------------------------------------------------------
(* The steps *)

StepEdges ==
    { <<"CREATE_MONUMENT", "PLACE_IN_SCENE">>,
      <<"PLACE_IN_SCENE", "CREATE_MONUMENT">>,
      <<"PLACE_IN_SCENE", "SHARE">>,
      <<"SHARE", "CREATE_MONUMENT">> }

\* C27: step changes only along CREATE_MONUMENT -> PLACE_IN_SCENE (Next),
\* PLACE_IN_SCENE -> CREATE_MONUMENT (Back), PLACE_IN_SCENE -> SHARE (a
\* placement succeeds) and SHARE -> CREATE_MONUMENT (Start Over); step
\* never goes from CREATE_MONUMENT directly to SHARE.
StepFollowsEdges ==
    [][ step' # step => <<step, step'>> \in StepEdges ]_vars

----------------------------------------------------------------------------
(* The key of the client-key wizard *)

\* this step starts an endpoint call: a handler is suspended at a call it
\* was not suspended at before
EndpointCallIssued ==
    \E r \in DOMAIN inflight' :
        /\ r.op \in CallingOps
        /\ inflight'[r] > (IF r \in DOMAIN inflight THEN inflight[r] ELSE 0)

\* this step starts a handler, which creates its GoogleGenAI client
ClientCreated == Outstanding(CallingOps)' > Outstanding(CallingOps)

\* a confirmed key is not blank
ConfirmedKeyNotBlank == (variant = "client" /\ apiKeyConfirmed) => Trim(apiKey) # Empty

\* a client is created only with a confirmed, non-empty key
ClientNeedsKey ==
    [][ (variant = "client" /\ ClientCreated) => (apiKeyConfirmed /\ apiKey # Empty) ]_vars

\* C28: in the client-key variant apiKeyConfirmed = true implies that the
\* stored apiKey is not blank, in every reachable state; no GoogleGenAI
\* client is created, hence no endpoint call issued, unless apiKeyConfirmed
\* is true and apiKey is non-empty.
KeyGuardsEveryCall ==
    /\ []ConfirmedKeyNotBlank
    /\ ClientNeedsKey
    /\ [][ (variant = "client" /\ EndpointCallIssued)
           => (apiKeyConfirmed /\ apiKey # Empty) ]_vars

----------------------------------------------------------------------------
(* A placement whose scene cannot be generated *)

\* C29: in a placement with sceneSource = 'prompt', when the scene call
\* raises or returns no image, the composite (two-image) call is not
\* issued and the placement ends in failure with no final image.
SceneFailureStopsPlacement ==
    [][ \A r \in Suspended(PlaceOps), o \in ImageOutcomes :
          (r.pc = "scene" /\ ~HasImage(o) /\ PlaceSceneSettlesWith(r, o))
          => /\ r.sceneSource = "prompt"
             /\ EndpointCalls(r, o) = <<ImageRequest(<<TextPart(r.scenePrompt)>>)>>
             /\ inflight' = Resume(r)
             /\ finalImage' = finalImage /\ step' = step
             /\ error' # null
             /\ ~isLoading' ]_vars

\* C29's case: a placement from a scene prompt has ended because the scene
\* call returned no image, and there is no final image
SceneFailedNoFinalImage ==
    /\ sceneSource = "prompt"
    /\ inflight = EmptyBag
    /\ error \in { Str(<<"Failed to generate a scene from prompt.">>),
                   Str(<<"Failed to generate a scene from the prompt.">>) }
    /\ finalImage = null /\ step = "PLACE_IN_SCENE"
    /\ ~isLoading

----------------------------------------------------------------------------
(* The loading flag *)

\* isLoading is up while a main action is outstanding
LoadingWhileOutstanding == Outstanding(MainOps) > 0 => isLoading

\* the main action `r` completes with `o`: its handler has run to its end
\* (a read that never settles, ReadFails, leaves it suspended for good)
Completes(r, o) ==
    /\ Outstanding(MainOps)' < Outstanding(MainOps)
    /\ ~(variant = "client" /\ o = ReadFailed)
    /\ SettlesWith(r, o)

\* C30: isLoading is true in every state in which a main generation action
\* (generateMonument, generateMonumentFromImage, placeMonument) has a file
\* read or an endpoint call outstanding, and is false after the action
\* completes; the completion of one action does not clear the flag while
\* another main action is still outstanding.
LoadingFlagTracksMainAction ==
    /\ []LoadingWhileOutstanding
    /\ [][ Outstanding(MainOps)' < Outstanding(MainOps)
           => \A r \in Suspended(MainOps) : \A o \in OutcomesOf(r) :
                  Completes(r, o) => (~isLoading' /\ Outstanding(MainOps)' = 0) ]_vars

\* C30's case: a placement has completed and the flag is down
PlacementCompletedFlagDown ==
    /\ variant = "client"
    /\ step = "SHARE" /\ finalImage # null
    /\ Outstanding(MainOps) = 0
    /\ ~isLoading
====
